---- MODULE Spec2Model ----
(***************************************************************************)
(* Text-extraction core of edreporter-parser: the quality heuristics and   *)
(* text cleanup (app/core/heuristics.py), the per-region orchestrator and  *)
(* the article assembler (app/core/extraction.py), the OCR adapter         *)
(* (app/core/ocr.py), the annotation document (app/core/                  *)
(* segment_model.py), the coordinate mapping and the text-layer extractor  *)
(* (app/core/pdf_io.py), the annotation files (app/core/storage.py), the   *)
(* routes of the web application (webapp/routes.py) and the Streamlit      *)
(* session (app/main.py, app/ui/annotate.py, app/ui/editor.py).            *)
(*                                                                         *)
(* A text is a sequence of one-character strings.  A quality score is an   *)
(* integer number of thousandths (1000 = 1.0): every factor of the score   *)
(* is a whole number of tenths and there are three of them.                *)
(***************************************************************************)
EXTENDS Integers, Sequences, FiniteSets, TLC

VARIABLES
    pages,        \* AnnotationDoc.pages: page index -> list of Region
    articles,     \* AnnotationDoc.articles: the article ids, in insertion order
    settings,     \* AnnotationDoc.settings
    updated_at,   \* AnnotationDoc.updated_at: how often it has been set
    next_region,  \* number of region ids handed out so far
    response,     \* what the last document operation returned to its caller
    call,         \* the call of a core function under observation
    text,         \* the text in the editor's text area
    cleaned,      \* whether "Apply Cleanup" has been pressed on it
    session,      \* Streamlit's st.session_state: config, current_pdf, ...
    rendered,     \* region id -> the DPI of the page image it was drawn on
    extracted_texts,  \* st.session_state.extracted_texts, in key order
    edited_text,  \* st.session_state["edited_text_<article id>"]
    disk,         \* the annotation file of each PDF
    clients       \* the documents the clients of the web application hold

vars == <<pages, articles, settings, updated_at, next_region, response, call,
          text, cleaned, session, rendered, extracted_texts, edited_text,
          disk, clients>>

docVars == <<pages, articles, settings, updated_at, next_region, response>>

sessionVars == <<session, rendered, extracted_texts, edited_text, disk,
                 clients>>

(***************************************************************************)
(* Characters                                                              *)
(***************************************************************************)
NL == "\n"

LowerLetters ==
    {"a", "b", "c", "d", "e", "f", "g", "h", "i", "j", "k", "l", "m",
     "n", "o", "p", "q", "r", "s", "t", "u", "v", "w", "x", "y", "z"}

UpperLetters ==
    {"A", "B", "C", "D", "E", "F", "G", "H", "I", "J", "K", "L", "M",
     "N", "O", "P", "Q", "R", "S", "T", "U", "V", "W", "X", "Y", "Z"}

Digits == {"0", "1", "2", "3", "4", "5", "6", "7", "8", "9"}

\* [a-zA-Z]
Letters == LowerLetters \cup UpperLetters

IsLetter(c) == c \in Letters

\* str.islower() of one character
IsLower(c) == c \in LowerLetters

\* str.isalnum() of one character
AlnumChars == LowerLetters \cup UpperLetters \cup Digits

IsAlnum(c) == c \in AlnumChars

\* str.isspace() of one character, and the regex class \s
SpaceChars == {" ", NL, "\t", "\r"}

IsSpace(c) == c \in SpaceChars

\* the regex class \w
WordChars == AlnumChars \cup {"_"}

IsWordChar(c) == c \in WordChars

(***************************************************************************)
(* str methods.  The operators work on indices rather than by recursion on *)
(* the characters, so that a text of a hundred characters is evaluated in  *)
(* constant depth.                                                         *)
(***************************************************************************)
Indices(s) == [i \in 1..Len(s) |-> i]

\* The indices of s, in increasing order, of the characters that are not
\* whitespace.
NonSpaceIndices(s) == SelectSeq(Indices(s), LAMBDA i : ~IsSpace(s[i]))

LStrip(s) ==
    LET idx == NonSpaceIndices(s)
    IN  IF idx = <<>> THEN <<>> ELSE SubSeq(s, idx[1], Len(s))

RStrip(s) ==
    LET idx == NonSpaceIndices(s)
    IN  IF idx = <<>> THEN <<>> ELSE SubSeq(s, 1, idx[Len(idx)])

Strip(s) ==
    LET idx == NonSpaceIndices(s)
    IN  IF idx = <<>> THEN <<>> ELSE SubSeq(s, idx[1], idx[Len(idx)])

\* s.split(sep) for a one-character separator: always at least one piece
SplitOn(s, sep) ==
    LET at == SelectSeq(Indices(s), LAMBDA i : s[i] = sep)
        n == Len(at)
    IN  [k \in 1..(n + 1) |->
            SubSeq(s, IF k = 1 THEN 1 ELSE at[k - 1] + 1,
                      IF k = n + 1 THEN Len(s) ELSE at[k] - 1)]

\* sep.join(parts)
RECURSIVE Join(_, _)
Join(parts, sep) ==
    IF parts = <<>> THEN <<>>
    ELSE IF Len(parts) = 1 THEN parts[1]
    ELSE parts[1] \o sep \o Join(Tail(parts), sep)

\* len(s.split()): the number of maximal runs of non-whitespace
CountWords(s) ==
    Cardinality({i \in 1..Len(s) :
        ~IsSpace(s[i]) /\ (i = 1 \/ IsSpace(s[i - 1]))})

\* sum(c.isalnum() for c in s)
CountAlnum(s) == Cardinality({i \in 1..Len(s) : IsAlnum(s[i])})

\* sum(c.isalnum() or c.isspace() for c in s)
CountAlnumOrSpace(s) ==
    Cardinality({i \in 1..Len(s) : IsAlnum(s[i]) \/ IsSpace(s[i])})

\* len(re.findall(r'\b[a-zA-Z]\b', s)): letters with no word character on
\* either side
IsolatedLetters(s) ==
    Cardinality({i \in 1..Len(s) :
        /\ IsLetter(s[i])
        /\ (i = 1 \/ ~IsWordChar(s[i - 1]))
        /\ (i = Len(s) \/ ~IsWordChar(s[i + 1]))})

(***************************************************************************)
(* Quality heuristics (app/core/heuristics.py)                             *)
(***************************************************************************)
\* should_fallback_to_ocr without its test of the length
should_fallback_to_ocr_any_length(t) ==
    LET s == Strip(t)
    IN  IF Len(s) = 0 THEN TRUE
        ELSE IF 100 * CountAlnum(s) < 65 * Len(s) THEN TRUE
        ELSE IF CountWords(s) > 0 /\ 10 * IsolatedLetters(s) > 3 * CountWords(s)
             THEN TRUE
        ELSE FALSE

\* should_fallback_to_ocr without its test of the isolated letters
should_fallback_to_ocr_ignoring_isolated(t) ==
    LET s == Strip(t)
    IN  IF Len(s) < 40 THEN TRUE
        ELSE IF 100 * CountAlnum(s) < 65 * Len(s) THEN TRUE
        ELSE FALSE

\* The ratios are compared as cross-multiplied integers: alnum / total <
\* 0.65 is 100 * alnum < 65 * total.
should_fallback_to_ocr(t) ==
    LET s == Strip(t)
        alphanum_count == CountAlnum(s)
        total_count == Len(s)
        isolated_letters == IsolatedLetters(s)
        words == CountWords(s)
    IN  IF Len(s) < 40 THEN TRUE
        ELSE IF total_count = 0 THEN TRUE
        ELSE IF 100 * alphanum_count < 65 * total_count THEN TRUE
        ELSE IF words > 0 /\ 10 * isolated_letters > 3 * words THEN TRUE
        ELSE FALSE

\* calculate_quality_score without its first test: a blank text gets the
\* score of a short text
calculate_quality_score_unguarded(t) ==
    LET s == Strip(t)
        ratio_factor ==
            IF 100 * CountAlnumOrSpace(s) < 50 * Len(s) THEN 3
            ELSE IF 100 * CountAlnumOrSpace(s) < 70 * Len(s) THEN 6
            ELSE IF 100 * CountAlnumOrSpace(s) < 85 * Len(s) THEN 9
            ELSE 10
        isolated_factor ==
            IF CountWords(s) > 0
            THEN IF 100 * IsolatedLetters(s) > 30 * CountWords(s) THEN 4
                 ELSE IF 100 * IsolatedLetters(s) > 15 * CountWords(s) THEN 7
                 ELSE 10
            ELSE 10
    IN  (IF Len(s) < 40 THEN 3 ELSE IF Len(s) < 100 THEN 6 ELSE 10)
            * ratio_factor * isolated_factor

\* The score in thousandths: the product of three factors given in tenths.
calculate_quality_score(t) ==
    IF t = <<>> \/ Len(Strip(t)) = 0 THEN 0
    ELSE
        LET s == Strip(t)
            alphanum_count == CountAlnumOrSpace(s)
            total_count == Len(s)
            isolated_letters == IsolatedLetters(s)
            words == CountWords(s)
            length_factor ==
                IF Len(s) < 40 THEN 3 ELSE IF Len(s) < 100 THEN 6 ELSE 10
            ratio_factor ==
                IF 100 * alphanum_count < 50 * total_count THEN 3
                ELSE IF 100 * alphanum_count < 70 * total_count THEN 6
                ELSE IF 100 * alphanum_count < 85 * total_count THEN 9
                ELSE 10
            isolated_factor ==
                IF words > 0
                THEN IF 100 * isolated_letters > 30 * words THEN 4
                     ELSE IF 100 * isolated_letters > 15 * words THEN 7
                     ELSE 10
                ELSE 10
            score == length_factor * ratio_factor * isolated_factor
        IN  IF score < 0 THEN 0 ELSE IF score > 1000 THEN 1000 ELSE score

(***************************************************************************)
(* Text cleanup (app/core/heuristics.py)                                   *)
(***************************************************************************)
\* The index of the first character at or after i that is not whitespace
\* (Len(s) + 1 when there is none).
SkipSpace(s, i) ==
    LET idx == SelectSeq(Indices(s), LAMBDA k : k >= i /\ ~IsSpace(s[k]))
    IN  IF idx = <<>> THEN Len(s) + 1 ELSE idx[1]

\* Where a match of ([a-zA-Z])-\s*\n\s*([a-zA-Z]) that starts at i ends, or 0
\* when none starts there: a letter, a hyphen, a run of whitespace holding a
\* newline, a letter.
HyphenMatchEnd(s, i) ==
    IF i + 1 <= Len(s) /\ IsLetter(s[i]) /\ s[i + 1] = "-"
    THEN LET j == SkipSpace(s, i + 2)
         IN  IF /\ j <= Len(s)
                /\ IsLetter(s[j])
                /\ \E k \in (i + 2)..(j - 1) : s[k] = NL
             THEN j
             ELSE 0
    ELSE 0

\* re.sub(r'([a-zA-Z])-\s*\n\s*([a-zA-Z])', r'\1\2', s), scanning from i:
\* the leftmost match at or after i is replaced by its two letters and the
\* scan resumes after the end of that match, so matches never overlap.
RECURSIVE Dehyphenate(_, _)
Dehyphenate(s, i) ==
    LET starts == SelectSeq(Indices(s),
                            LAMBDA k : k >= i /\ HyphenMatchEnd(s, k) # 0)
    IN  IF starts = <<>> THEN SubSeq(s, i, Len(s))
        ELSE LET k == starts[1]
                 j == HyphenMatchEnd(s, k)
             IN  SubSeq(s, i, k - 1) \o <<s[k], s[j]>> \o Dehyphenate(s, j + 1)

\* The condition under which the loop merges lines[i] with lines[i + 1].
ShouldJoin(line, next_line) ==
    /\ line # <<>>
    /\ next_line # <<>>
    /\ line[Len(line)] \notin {".", "!", "?", ":", "\""}
    /\ IsLower(next_line[1])

\* The while loop over the lines, from index i with cleaned_lines = acc.  The
\* merged line is assigned to the local variable and never appended.
RECURSIVE JoinLines(_, _, _)
JoinLines(lines, i, acc) ==
    IF i > Len(lines) THEN acc
    ELSE LET line == RStrip(lines[i])
         IN  IF i + 1 <= Len(lines)
             THEN LET next_line == LStrip(lines[i + 1])
                  IN  IF ShouldJoin(line, next_line)
                      THEN JoinLines(lines, i + 2, acc)
                      ELSE JoinLines(lines, i + 1, Append(acc, line))
             ELSE JoinLines(lines, i + 1, Append(acc, line))

\* cleanup_text without the substitution that collapses runs of newlines
CollapseNewlines_keeping_all(s) == s

\* re.sub(r'\n{3,}', '\n\n', s): of every run of three or more newlines the
\* first two are kept.
CollapseNewlines(s) ==
    LET kept == SelectSeq(Indices(s), LAMBDA i :
                    ~(i >= 3 /\ s[i] = NL /\ s[i - 1] = NL /\ s[i - 2] = NL))
    IN  [k \in 1..Len(kept) |-> s[kept[k]]]

\* '\n'.join(line.rstrip() for line in lines)
RStripLines(s) ==
    LET lines == SplitOn(s, NL)
    IN  Join([i \in 1..Len(lines) |-> RStrip(lines[i])], <<NL>>)

cleanup_text(t) ==
    LET dehyphenated == Dehyphenate(t, 1)
        cleaned_lines == JoinLines(SplitOn(dehyphenated, NL), 1, <<>>)
        joined == Join(cleaned_lines, <<NL>>)
        collapsed == CollapseNewlines(joined)
    IN  Strip(RStripLines(collapsed))

(***************************************************************************)
(* Sample texts                                                            *)
(***************************************************************************)
RECURSIVE Repeat(_, _)
Repeat(s, n) == IF n = 0 THEN <<>> ELSE s \o Repeat(s, n - 1)

EmptyText == <<>>

\* "a b c d e f": shorter than 40 characters, every word an isolated letter
SpacedLetters == <<"a", " ", "b", " ", "c", " ", "d", " ", "e", " ", "f">>

\* "lorem ipsum lorem ipsum lorem ipsum lorem ipsum." (48 characters, one line)
ProseText ==
    Repeat(<<"l", "o", "r", "e", "m", " ", "i", "p", "s", "u", "m", " ">>, 3)
        \o <<"l", "o", "r", "e", "m", " ", "i", "p", "s", "u", "m", ".">>

\* 48 characters of which a quarter are alphanumeric
GarbledText == Repeat(<<"a", "#", "%", " ">>, 12)

\* "abcdefgh x " five times: long enough and mostly alphanumeric, but half of
\* its words are isolated letters
ScatteredText ==
    Repeat(<<"a", "b", "c", "d", "e", "f", "g", "h", " ", "x", " ">>, 5)

\* 108 characters of prose on one line
LongProseText == Repeat(<<"t", "h", "e", " ", "w", "o", "r", "d", "s", " ", "g", "o">>, 9)

\* 80 characters that are just acceptable: "a", three words of 17 letters
\* and 25 exclamation marks; 65% are alphanumeric and one word in four is an
\* isolated letter
BorderlineText ==
    <<"a">> \o Repeat(<<" ">> \o Repeat(<<"b">>, 17), 3) \o Repeat(<<"!">>, 25)

\* What the recognizer prints for a two-line crop: the lines end in newlines
\* "Scanned text of the\nsecond column here.\n"
ScannedText ==
    <<"S", "c", "a", "n", "n", "e", "d", " ", "t", "e", "x", "t", " ", "o", "f",
      " ", "t", "h", "e", NL>>
    \o <<"s", "e", "c", "o", "n", "d", " ", "c", "o", "l", "u", "m", "n", " ",
         "h", "e", "r", "e", ".", NL>>

\* "Title.\n"
ScannedTitle == <<"T", "i", "t", "l", "e", ".", NL>>

(***************************************************************************)
(* The outside world of one extract_region_text call: whether Tesseract is *)
(* installed, what the text layer gives for the region, and for each       *)
(* invocation of the OCR path whether render-and-crop succeeds and what    *)
(* the recognizer does.                                                    *)
(***************************************************************************)
TextLayerRaises == [raises |-> TRUE, text |-> <<>>]

TextLayerGives(t) == [raises |-> FALSE, text |-> t]

CropFails == [crop_ok |-> FALSE, recog_ok |-> FALSE, text |-> <<>>]

RecognizerFails == [crop_ok |-> TRUE, recog_ok |-> FALSE, text |-> <<>>]

Recognizes(t) == [crop_ok |-> TRUE, recog_ok |-> TRUE, text |-> t]

(***************************************************************************)
(* OCR adapter (app/core/ocr.py)                                           *)
(***************************************************************************)
Returned(t) == [raised |-> "none", text |-> t]

Raised(e) == [raised |-> e, text |-> <<>>]

\* available is what check_tesseract_available() answers; every other error
\* of the recognizer is swallowed
ocr_image_crop(available, o) ==
    IF ~available THEN Raised("TesseractNotFoundError")
    ELSE IF ~o.recog_ok THEN Returned(<<>>)
    ELSE Returned(o.text)

(***************************************************************************)
(* Region extraction orchestrator (app/core/extraction.py)                 *)
(***************************************************************************)
\* _ocr_region without its generic handler: a failure of render-and-crop
\* leaves it
ocr_region_unhandled(available, o) ==
    IF ~o.crop_ok THEN Raised("Exception")
    ELSE LET r == ocr_image_crop(available, o)
         IN  IF r.raised = "TesseractNotFoundError" THEN r
             ELSE Returned(r.text)

\* _ocr_region: crop_page_region runs before ocr_image_crop, inside the try
\* whose generic handler returns "".
ocr_region(available, o) ==
    IF ~o.crop_ok THEN Returned(<<>>)
    ELSE LET r == ocr_image_crop(available, o)
         IN  IF r.raised = "TesseractNotFoundError" THEN r
             ELSE Returned(r.text)

\* RegionExtraction with the length taken after trimming, as the score is
RegionExtraction_trimmed_length(region, page_index, method, t, ocr_confidence) ==
    [region_id |-> region.region_id,
     page_index |-> page_index,
     method |-> method,
     quality_score |-> calculate_quality_score(t),
     text_length |-> Len(Strip(t)),
     ocr_confidence |-> ocr_confidence]

RegionExtraction(region, page_index, method, t, ocr_confidence) ==
    [region_id |-> region.region_id,
     page_index |-> page_index,
     method |-> method,
     quality_score |-> calculate_quality_score(t),
     text_length |-> Len(t),
     ocr_confidence |-> ocr_confidence]

NoMetadata ==
    [region_id |-> 0, page_index |-> 0, method |-> "none", quality_score |-> 0,
     text_length |-> 0, ocr_confidence |-> 0]

\* What a call hands back: the exception that left it ("none" when it
\* returned), the returned pair, and what it did on the way: whether the
\* text layer was queried, what it gave, and the outcome of each invocation
\* of _ocr_region in order.
CallResult(raised, t, metadata, text_layer, ocr_results) ==
    [raised |-> raised, text |-> t, metadata |-> metadata,
     text_layer |-> text_layer, ocr_results |-> ocr_results]

NotQueried == [queried |-> FALSE, raises |-> FALSE, text |-> <<>>]

Queried(tl) == [queried |-> TRUE, raises |-> tl.raises, text |-> tl.text]

\* Lines 112-127: the score and the length are taken from the final text.
Finish(page_index, region, method, ocr_confidence, r, text_layer, ocr_results) ==
    IF r.raised # "none"
    THEN CallResult(r.raised, <<>>, NoMetadata, text_layer, ocr_results)
    ELSE CallResult("none", r.text,
                    RegionExtraction(region, page_index, method, r.text,
                                     ocr_confidence),
                    text_layer, ocr_results)

\* The call at line 105, in the handler of the try of lines 85-100: reached
\* when extract_text_in_bbox raised and also when the _ocr_region call of line
\* 95 raised TesseractNotFoundError, which is an Exception too.
FallbackAfterException(page_index, region, env, text_layer, earlier) ==
    LET r == ocr_region(env.tesseract, env.ocr[Len(earlier) + 1])
    IN  Finish(page_index, region, "ocr", 0, r, text_layer,
               Append(earlier, r))

\* extract_region_text without the quality check: whatever the text layer
\* answers is accepted
extract_region_text_unchecked(page_index, region, prefer_pdf_text, env) ==
    IF prefer_pdf_text
    THEN IF env.text_layer.raises
         THEN FallbackAfterException(page_index, region, env,
                                     Queried(env.text_layer), <<>>)
         ELSE Finish(page_index, region, "pdf_text", 0,
                     Returned(env.text_layer.text),
                     Queried(env.text_layer), <<>>)
    ELSE LET r == ocr_region(env.tesseract, env.ocr[1])
         IN  Finish(page_index, region, "ocr", 0, r, NotQueried, <<r>>)

\* extract_region_text without the handler of line 101: an exception of the
\* text layer leaves the call
extract_region_text_unhandled(page_index, region, prefer_pdf_text, env) ==
    IF prefer_pdf_text
    THEN IF env.text_layer.raises
         THEN CallResult("Exception", <<>>, NoMetadata,
                         Queried(env.text_layer), <<>>)
         ELSE IF should_fallback_to_ocr(env.text_layer.text)
         THEN LET r == ocr_region(env.tesseract, env.ocr[1])
              IN  Finish(page_index, region, "ocr", 85, r,
                         Queried(env.text_layer), <<r>>)
         ELSE Finish(page_index, region, "pdf_text", 0,
                     Returned(env.text_layer.text),
                     Queried(env.text_layer), <<>>)
    ELSE LET r == ocr_region(env.tesseract, env.ocr[1])
         IN  Finish(page_index, region, "ocr", 0, r, NotQueried, <<r>>)

extract_region_text(page_index, region, prefer_pdf_text, env) ==
    IF prefer_pdf_text
    THEN IF env.text_layer.raises
         THEN FallbackAfterException(page_index, region, env,
                                     Queried(env.text_layer), <<>>)
         ELSE IF should_fallback_to_ocr(env.text_layer.text)
         THEN LET r == ocr_region(env.tesseract, env.ocr[1])
              IN  IF r.raised # "none"
                  THEN FallbackAfterException(page_index, region, env,
                                              Queried(env.text_layer), <<r>>)
                  ELSE Finish(page_index, region, "ocr", 85, r,
                              Queried(env.text_layer), <<r>>)
         ELSE Finish(page_index, region, "pdf_text", 0,
                     Returned(env.text_layer.text),
                     Queried(env.text_layer), <<>>)
    ELSE LET r == ocr_region(env.tesseract, env.ocr[1])
         IN  Finish(page_index, region, "ocr", 0, r, NotQueried, <<r>>)

\* re_extract_region passing force_ocr on as prefer_pdf_text
re_extract_region_unnegated(page_index, region, force_ocr, env) ==
    extract_region_text(page_index, region, force_ocr, env)

re_extract_region(page_index, region, force_ocr, env) ==
    extract_region_text(page_index, region, ~force_ocr, env)

(***************************************************************************)
(* Bounds and input domains                                                *)
(***************************************************************************)
\* the most lines a text given to the editor has
MaxLines == 4

\* the most regions an annotation document holds
MaxRegions == 2

PageIndices == {0, 1}

BBoxes == {[x |-> 0, y |-> 10, w |-> 100, h |-> 50],
           [x |-> 0, y |-> 80, w |-> 100, h |-> 50]}

\* the article ids in use ("A1", "A2")
ArticleIdSamples == {1, 2}

\* where regions are drawn: two boxes of the first page, one above the other,
\* and a box of the second page
PlaceSamples ==
    {pl \in [page_index : PageIndices, bbox : BBoxes] :
        pl.page_index = 0 \/ pl.bbox.y = 10}

\* the order argument of add_region: None (0), or the rank 1 given explicitly
OrderSamples == {0, 1}

\* The lines the editor's texts are made of
LineSamples ==
    {<<>>, <<" ">>, <<"a">>, <<"A">>, <<"a", "-">>, <<"a", ".">>, <<" ", "a">>,
     <<"a", " ">>}

Texts ==
    {Join(ls, <<NL>>) : ls \in UNION {[1..n -> LineSamples] : n \in 1..MaxLines}}

TextLayerSamples ==
    {TextLayerRaises} \cup
    {TextLayerGives(t) : t \in {EmptyText, SpacedLetters, ProseText,
                                GarbledText, ScatteredText, LongProseText,
                                BorderlineText}}

OcrSamples ==
    {CropFails, RecognizerFails, Recognizes(ScannedText), Recognizes(ProseText)}

CallEnvs ==
    [tesseract : BOOLEAN, text_layer : TextLayerSamples,
     ocr : OcrSamples \X OcrSamples]

RegionSamples ==
    [region_id : {1, 2}, article_id : {1}, order : {1}, bbox : BBoxes]

\* What a page holds at one bounding box: the text layer there and, for the
\* invocations of the OCR path, what render-and-crop and the recognizer do.
PdfSamples ==
    {[text_layer |-> TextLayerGives(ProseText),
      ocr |-> <<Recognizes(ScannedTitle), Recognizes(ScannedTitle)>>],
     [text_layer |-> TextLayerGives(SpacedLetters),
      ocr |-> <<Recognizes(ScannedText), Recognizes(ScannedText)>>],
     [text_layer |-> TextLayerGives(SpacedLetters),
      ocr |-> <<RecognizerFails, RecognizerFails>>],
     [text_layer |-> TextLayerRaises,
      ocr |-> <<CropFails, CropFails>>]}

(***************************************************************************)
(* State outside the part a specification is about                         *)
(***************************************************************************)
NoPages == [p \in {} |-> <<>>]

DefaultSettings == [dpi |-> 200, prefer_pdf_text_layer |-> TRUE]

NoResponse == [op |-> "none"]

NoCall == [state |-> "idle"]

\* Python's None where an id, an order or a path is expected
None == 0

\* st.session_state after init_session_state
NoSession ==
    [config |-> [dpi |-> 200, prefer_pdf_text |-> TRUE],
     current_pdf |-> None,
     selected_article |-> None]

NoRendered == [r \in {} |-> 0]

\* No "edited_text_<article id>" key is in st.session_state
NoEditedText == [a \in {} |-> <<>>]

\* The PDFs of the data directory, numbered
PdfNames == {1, 2}

\* No annotation file has been written for a PDF
NoFile == [exists |-> FALSE, content |-> <<>>]

\* No client of the web application has loaded anything
NoClients == [c \in {} |-> <<>>]

EmptyDoc ==
    /\ pages = NoPages
    /\ articles = <<>>
    /\ settings = DefaultSettings
    /\ updated_at = 0
    /\ next_region = 0
    /\ response = NoResponse

FreshSession ==
    /\ session = NoSession
    /\ rendered = NoRendered
    /\ extracted_texts = <<>>
    /\ edited_text = NoEditedText
    /\ disk = [pdf \in PdfNames |-> NoFile]
    /\ clients = NoClients

(***************************************************************************)
(* Annotation document (app/core/segment_model.py).  An article id "A<n>"  *)
(* is the number n; a region id is the number of the region in creation    *)
(* order.  updated_at is set to datetime.now() by the operations: every    *)
(* reading of the clock is later than the one before, and updated_at is    *)
(* the number of times it has been set.                                    *)
(***************************************************************************)
ArticleIds(arts) == {arts[i].article_id : i \in 1..Len(arts)}

\* The elements of a finite set of integers in increasing order
SortedSeq(S) ==
    [i \in 1..Cardinality(S) |->
        CHOOSE x \in S : Cardinality({y \in S : y < x}) = i - 1]

Max(S) == CHOOSE x \in S : \A y \in S : y <= x

\* Every (page index, region) of the document.  The pages are visited in
\* increasing index: the order of the dict's keys shows in no result, because
\* every sort below has the page index in its key.
RECURSIVE RegionsOnPages(_, _)
RegionsOnPages(pgs, page_seq) ==
    IF page_seq = <<>> THEN <<>>
    ELSE LET p == Head(page_seq)
         IN  [i \in 1..Len(pgs[p]) |-> [page_index |-> p, region |-> pgs[p][i]]]
                 \o RegionsOnPages(pgs, Tail(page_seq))

AllRegions(pgs) == RegionsOnPages(pgs, SortedSeq(DOMAIN pgs))

\* (order, page index, bbox.y) compared as tuples
ReadingOrderLess(a, b) ==
    \/ a.region.order < b.region.order
    \/ /\ a.region.order = b.region.order
       /\ \/ a.page_index < b.page_index
          \/ /\ a.page_index = b.page_index
             /\ a.region.bbox.y < b.region.bbox.y

\* list.sort(key=...): a stable sort, by the position each element gets
StableSort(s) ==
    LET pos(i) == 1 + Cardinality({j \in 1..Len(s) :
                        \/ ReadingOrderLess(s[j], s[i])
                        \/ (~ReadingOrderLess(s[i], s[j]) /\ j < i)})
    IN  [k \in 1..Len(s) |-> s[CHOOSE i \in 1..Len(s) : pos(i) = k]]

get_regions_for_article(pgs, article_id) ==
    StableSort(SelectSeq(AllRegions(pgs),
                         LAMBDA r : r.region.article_id = article_id))

\* add_article: the new article map and the id returned
add_article(arts, article_id) ==
    LET id == IF article_id = None
              THEN Max(ArticleIds(arts) \cup {0}) + 1
              ELSE article_id
    IN  [article_id |-> id,
         created |-> id \notin ArticleIds(arts),
         articles |-> IF id \notin ArticleIds(arts)
                      THEN Append(arts, [article_id |-> id,
                                         color |-> Len(arts) % 10])
                      ELSE arts]

\* add_region without "Ensure article exists"
add_region_without_article(pgs, arts, new_id, page_index, bbox, article_id, order) ==
    LET pgs1 == [p \in DOMAIN pgs \cup {page_index} |->
                    IF p \in DOMAIN pgs THEN pgs[p] ELSE <<>>]
        region == [region_id |-> new_id,
                   article_id |-> article_id,
                   order |-> IF order = None THEN 1 ELSE order,
                   bbox |-> bbox]
    IN  [region_id |-> new_id,
         refreshes |-> 1,
         pages |-> [pgs1 EXCEPT ![page_index] = Append(@, region)],
         articles |-> arts]

\* add_region: the new page map and article map and the id returned
add_region(pgs, arts, new_id, page_index, bbox, article_id, order) ==
    LET pgs1 == [p \in DOMAIN pgs \cup {page_index} |->
                    IF p \in DOMAIN pgs THEN pgs[p] ELSE <<>>]
        arts1 == IF article_id \notin ArticleIds(arts)
                 THEN add_article(arts, article_id).articles
                 ELSE arts
        all == AllRegions(pgs1)
        max_order == Max({all[i].region.order :
                            i \in {j \in 1..Len(all) :
                                     all[j].region.article_id = article_id}}
                         \cup {0})
        region == [region_id |-> new_id,
                   article_id |-> article_id,
                   order |-> IF order = None THEN max_order + 1 ELSE order,
                   bbox |-> bbox]
    IN  [region_id |-> new_id,
         refreshes |-> IF article_id \notin ArticleIds(arts) THEN 2 ELSE 1,
         pages |-> [pgs1 EXCEPT ![page_index] = Append(@, region)],
         articles |-> arts1]

\* Whether some page holds a region with this id
HasRegion(pgs, region_id) ==
    \E p \in DOMAIN pgs :
        \E i \in 1..Len(pgs[p]) : pgs[p][i].region_id = region_id

\* delete_region that empties the page of the region it deletes
delete_region_with_page(pgs, region_id) ==
    [found |-> HasRegion(pgs, region_id),
     pages |-> [p \in DOMAIN pgs |->
                  IF \E i \in 1..Len(pgs[p]) : pgs[p][i].region_id = region_id
                  THEN <<>>
                  ELSE pgs[p]]]

\* delete_region: what it returns and the new page map.  Region ids are
\* unique, so the first match is the only one.
delete_region(pgs, region_id) ==
    [found |-> HasRegion(pgs, region_id),
     pages |-> [p \in DOMAIN pgs |->
                  SelectSeq(pgs[p], LAMBDA r : r.region_id # region_id)]]

\* reorder_region: what it returns and the new page map
reorder_region(pgs, region_id, new_order) ==
    [found |-> HasRegion(pgs, region_id),
     pages |-> [p \in DOMAIN pgs |->
                  [i \in 1..Len(pgs[p]) |->
                     IF pgs[p][i].region_id = region_id
                     THEN [pgs[p][i] EXCEPT !.order = new_order]
                     ELSE pgs[p][i]]]]

\* (page index, bbox.y, bbox.x) compared as tuples
PositionLess(a, b) ==
    \/ a.page_index < b.page_index
    \/ /\ a.page_index = b.page_index
       /\ \/ a.region.bbox.y < b.region.bbox.y
          \/ /\ a.region.bbox.y = b.region.bbox.y
             /\ a.region.bbox.x < b.region.bbox.x

\* regions.sort(key=...) by position: a stable sort
SortByPosition(s) ==
    LET pos(i) == 1 + Cardinality({j \in 1..Len(s) :
                        \/ PositionLess(s[j], s[i])
                        \/ (~PositionLess(s[i], s[j]) /\ j < i)})
    IN  [k \in 1..Len(s) |-> s[CHOOSE i \in 1..Len(s) : pos(i) = k]]

\* auto_order_article without its sort by position: the regions are
\* numbered in the order get_regions_for_article returns them
auto_order_article_keeping_order(pgs, article_id) ==
    LET regions == get_regions_for_article(pgs, article_id)
        rank(region_id) ==
            CHOOSE i \in 1..Len(regions) : regions[i].region.region_id = region_id
    IN  [p \in DOMAIN pgs |->
           [i \in 1..Len(pgs[p]) |->
              IF pgs[p][i].article_id = article_id
              THEN [pgs[p][i] EXCEPT !.order = rank(pgs[p][i].region_id)]
              ELSE pgs[p][i]]]

\* auto_order_article: the new page map
auto_order_article(pgs, article_id) ==
    LET regions == SortByPosition(get_regions_for_article(pgs, article_id))
        rank(region_id) ==
            CHOOSE i \in 1..Len(regions) : regions[i].region.region_id = region_id
    IN  [p \in DOMAIN pgs |->
           [i \in 1..Len(pgs[p]) |->
              IF pgs[p][i].article_id = article_id
              THEN [pgs[p][i] EXCEPT !.order = rank(pgs[p][i].region_id)]
              ELSE pgs[p][i]]]

(***************************************************************************)
(* The article routes of the web application (webapp/routes.py).  A route  *)
(* rebuilds the document from the request with from_dict and answers with  *)
(* to_dict, which keep every field modelled here.                          *)
(***************************************************************************)
\* /api/article/update with a colour among the updates
update_article(arts, article_id, color) ==
    IF article_id \notin ArticleIds(arts)
    THEN [status |-> 404, articles |-> arts]
    ELSE [status |-> 200,
          articles |-> [i \in 1..Len(arts) |->
                          IF arts[i].article_id = article_id
                          THEN [arts[i] EXCEPT !.color = color]
                          ELSE arts[i]]]

\* /api/article/delete: delete_region for every region of the article, then
\* the article itself
delete_article(pgs, arts, article_id) ==
    IF article_id \notin ArticleIds(arts)
    THEN [status |-> 404, refreshes |-> 0, pages |-> pgs, articles |-> arts]
    ELSE [status |-> 200,
          refreshes |-> Len(get_regions_for_article(pgs, article_id)),
          pages |-> [p \in DOMAIN pgs |->
                       SelectSeq(pgs[p], LAMBDA r : r.article_id # article_id)],
          articles |-> SelectSeq(arts, LAMBDA a : a.article_id # article_id)]

(***************************************************************************)
(* Article text assembler (app/core/extraction.py)                         *)
(***************************************************************************)
ExtractedText(article_id, t, regions_metadata) ==
    [article_id |-> article_id, text |-> t,
     regions_metadata |-> regions_metadata]

\* The extract_region_text calls of one article, in the order of the loop of
\* line 219.  pdf tells, for the bounding box of a region, what the text
\* layer and the OCR path do there.
ArticleCalls(pgs, prefs, article_id, tesseract, pdf) ==
    LET regions == get_regions_for_article(pgs, article_id)
    IN  [k \in 1..Len(regions) |->
            [article_id |-> article_id,
             result |-> extract_region_text(
                 regions[k].page_index, regions[k].region,
                 prefs.prefer_pdf_text_layer,
                 [tesseract |-> tesseract,
                  text_layer |-> pdf[regions[k].region.bbox].text_layer,
                  ocr |-> pdf[regions[k].region.bbox].ocr])]]

\* ArticleText keeping a record only for a region that gave some text
ArticleText_dropping_empty(article_id, calls, apply_cleanup) ==
    IF calls = <<>>
    THEN ExtractedText(article_id, <<>>, <<>>)
    ELSE LET full_text == Join([k \in 1..Len(calls) |-> calls[k].result.text],
                               <<NL, NL>>)
             kept == SelectSeq(calls, LAMBDA c : c.result.text # <<>>)
         IN  ExtractedText(article_id,
                           IF apply_cleanup THEN cleanup_text(full_text)
                           ELSE full_text,
                           [k \in 1..Len(kept) |-> kept[k].result.metadata])

\* ArticleText cleaning the text of every region before the texts are joined
ArticleText_cleaning_each_region(article_id, calls, apply_cleanup) ==
    IF calls = <<>>
    THEN ExtractedText(article_id, <<>>, <<>>)
    ELSE ExtractedText(article_id,
                       Join([k \in 1..Len(calls) |->
                               IF apply_cleanup
                               THEN cleanup_text(calls[k].result.text)
                               ELSE calls[k].result.text],
                            <<NL, NL>>),
                       [k \in 1..Len(calls) |-> calls[k].result.metadata])

\* The ExtractedText of one article none of whose calls raised
ArticleText(article_id, calls, apply_cleanup) ==
    IF calls = <<>>
    THEN ExtractedText(article_id, <<>>, <<>>)
    ELSE LET full_text == Join([k \in 1..Len(calls) |-> calls[k].result.text],
                               <<NL, NL>>)
         IN  ExtractedText(article_id,
                           IF apply_cleanup THEN cleanup_text(full_text)
                           ELSE full_text,
                           [k \in 1..Len(calls) |-> calls[k].result.metadata])

RECURSIVE Concat(_)
Concat(seqs) == IF seqs = <<>> THEN <<>> ELSE Head(seqs) \o Concat(Tail(seqs))

\* What a build_article_text request leaves: the exception that ended it
\* ("none" when it returned), the returned map as the sequence of its
\* entries, the extract_region_text calls made, in order, and the inputs.
BuildResponse(raised, results, calls, apply_cleanup, tesseract, pdf) ==
    [op |-> "build_article_text", raised |-> raised, results |-> results,
     calls |-> calls, apply_cleanup |-> apply_cleanup,
     tesseract |-> tesseract, pdf |-> pdf]

\* The calls of all the articles, in the order of the article map
AllCalls(pgs, arts, prefs, tesseract, pdf) ==
    Concat([a \in 1..Len(arts) |->
              ArticleCalls(pgs, prefs, arts[a].article_id, tesseract, pdf)])

FirstRaising(calls) ==
    LET raising == {k \in 1..Len(calls) : calls[k].result.raised # "none"}
    IN  IF raising = {} THEN 0
        ELSE CHOOSE k \in raising : \A j \in raising : k <= j

\* build_article_text leaving out of the result an article without regions
build_article_text_skipping_empty(pgs, arts, prefs, apply_cleanup, tesseract, pdf) ==
    LET calls == AllCalls(pgs, arts, prefs, tesseract, pdf)
        first == FirstRaising(calls)
        with_regions == SelectSeq(arts, LAMBDA art :
            get_regions_for_article(pgs, art.article_id) # <<>>)
    IN  IF first # 0
        THEN BuildResponse(calls[first].result.raised, <<>>,
                           SubSeq(calls, 1, first), apply_cleanup, tesseract, pdf)
        ELSE BuildResponse("none",
                 [a \in 1..Len(with_regions) |->
                     ArticleText(with_regions[a].article_id,
                                 SelectSeq(calls, LAMBDA c :
                                     c.article_id = with_regions[a].article_id),
                                 apply_cleanup)],
                 calls, apply_cleanup, tesseract, pdf)

\* build_article_text: the articles are taken in the order of the article
\* map; the first call that raises ends the whole function, and nothing of
\* what was extracted before reaches the caller.
build_article_text(pgs, arts, prefs, apply_cleanup, tesseract, pdf) ==
    LET calls == AllCalls(pgs, arts, prefs, tesseract, pdf)
        first == FirstRaising(calls)
    IN  IF first # 0
        THEN BuildResponse(calls[first].result.raised, <<>>,
                           SubSeq(calls, 1, first), apply_cleanup, tesseract, pdf)
        ELSE BuildResponse("none",
                 [a \in 1..Len(arts) |->
                     ArticleText(arts[a].article_id,
                                 SelectSeq(calls, LAMBDA c :
                                     c.article_id = arts[a].article_id),
                                 apply_cleanup)],
                 calls, apply_cleanup, tesseract, pdf)

(***************************************************************************)
(* The document operations and the extraction request                     *)
(***************************************************************************)
RegionCount == Len(AllRegions(pages))

\* the bounding boxes of the regions of the document
BBoxesInUse ==
    {AllRegions(pages)[i].region.bbox : i \in 1..Len(AllRegions(pages))}

AddArticle ==
    /\ Max(ArticleIds(articles) \cup {0}) + 1 \in ArticleIdSamples
    /\ LET r == add_article(articles, None)
       IN  /\ articles' = r.articles
           /\ updated_at' = IF r.created THEN updated_at + 1 ELSE updated_at
           /\ response' = [op |-> "add_article", article_id |-> r.article_id]
    /\ UNCHANGED <<pages, settings, next_region, sessionVars, call, text,
                   cleaned>>

AddRegion(page_index, bbox, article_id, order) ==
    /\ RegionCount < MaxRegions
    /\ LET r == add_region(pages, articles, next_region + 1, page_index, bbox,
                           article_id, order)
       IN  /\ pages' = r.pages
           /\ articles' = r.articles
           /\ next_region' = next_region + 1
           /\ updated_at' = updated_at + r.refreshes
           /\ response' = [op |-> "add_region", region_id |-> r.region_id]
    /\ UNCHANGED <<settings, sessionVars, call, text, cleaned>>

\* The document is left as it is, so a second request on the same document
\* gives what it gives from the state before the first: one request is
\* followed per document state.
BuildArticleText(apply_cleanup, tesseract, pdf) ==
    /\ response.op # "build_article_text"
    /\ response' = build_article_text(pages, articles, settings, apply_cleanup,
                                      tesseract, pdf)
    /\ UNCHANGED <<pages, articles, settings, updated_at, next_region,
                   sessionVars, call, text, cleaned>>

DeleteRegion(region_id) ==
    /\ LET r == delete_region(pages, region_id)
       IN  /\ pages' = r.pages
           /\ updated_at' = IF r.found THEN updated_at + 1 ELSE updated_at
           /\ response' = [op |-> "delete_region", result |-> r.found]
    /\ UNCHANGED <<articles, settings, next_region, sessionVars, call, text,
                   cleaned>>

ReorderRegion(region_id, new_order) ==
    /\ LET r == reorder_region(pages, region_id, new_order)
       IN  /\ pages' = r.pages
           /\ updated_at' = IF r.found THEN updated_at + 1 ELSE updated_at
           /\ response' = [op |-> "reorder_region", result |-> r.found]
    /\ UNCHANGED <<articles, settings, next_region, sessionVars, call, text,
                   cleaned>>

AutoOrderArticle(article_id) ==
    /\ pages' = auto_order_article(pages, article_id)
    /\ updated_at' = updated_at + 1
    /\ response' = [op |-> "auto_order_article", article_id |-> article_id]
    /\ UNCHANGED <<articles, settings, next_region, sessionVars, call, text,
                   cleaned>>

UpdateArticle(article_id, color) ==
    /\ LET r == update_article(articles, article_id, color)
       IN  /\ articles' = r.articles
           /\ response' = [op |-> "update_article", status |-> r.status]
    /\ UNCHANGED <<pages, settings, updated_at, next_region, sessionVars, call,
                   text, cleaned>>

DeleteArticle(article_id) ==
    /\ LET r == delete_article(pages, articles, article_id)
       IN  /\ pages' = r.pages
           /\ articles' = r.articles
           /\ updated_at' = updated_at + r.refreshes
           /\ response' = [op |-> "delete_article", status |-> r.status]
    /\ UNCHANGED <<settings, next_region, sessionVars, call, text, cleaned>>

Init ==
    /\ pages = NoPages
    /\ articles = <<>>
    /\ settings = DefaultSettings
    /\ updated_at = 0
    /\ next_region = 0
    /\ FreshSession
    /\ response = NoResponse
    /\ call = NoCall
    /\ text = <<>>
    /\ cleaned = FALSE

Next ==
    \/ AddArticle
    \/ \E pl \in PlaceSamples, a \in ArticleIdSamples, o \in OrderSamples :
          AddRegion(pl.page_index, pl.bbox, a, o)
    \/ \E c \in BOOLEAN, t \in BOOLEAN, pdf \in [BBoxesInUse -> PdfSamples] :
          BuildArticleText(c, t, pdf)

Spec == Init /\ [][Next]_vars

(***************************************************************************)
(* The document under every operation that edits it                        *)
(***************************************************************************)
\* How often updated_at may have been set before the last operation starts
MaxUpdates == 5

\* The colour an update gives an article: the sixth of the palette
ColorSamples == {5}

\* The order a region is moved to
NewOrderSamples == {3}

\* The ids of the regions of the document and one that was never handed out
RegionIdsTried ==
    {AllRegions(pages)[i].region.region_id : i \in 1..Len(AllRegions(pages))}
        \cup {next_region + 1}

\* The cap on updated_at: no operation starts once it is reached
Editable == updated_at < MaxUpdates

NextDoc ==
    \/ Editable /\ AddArticle
    \/ \E pl \in PlaceSamples, a \in ArticleIdSamples :
          Editable /\ AddRegion(pl.page_index, pl.bbox, a, None)
    \/ \E id \in RegionIdsTried : Editable /\ DeleteRegion(id)
    \/ \E id \in RegionIdsTried, o \in NewOrderSamples :
          Editable /\ ReorderRegion(id, o)
    \/ \E a \in ArticleIdSamples : Editable /\ AutoOrderArticle(a)
    \/ \E a \in ArticleIdSamples, c \in ColorSamples :
          Editable /\ UpdateArticle(a, c)
    \/ \E a \in ArticleIdSamples : Editable /\ DeleteArticle(a)

SpecDoc == Init /\ [][NextDoc]_vars

(***************************************************************************)
(* Regions are drawn and deleted between builds                            *)
(***************************************************************************)
\* The ids of the regions of the document
RegionIdsInUse ==
    {AllRegions(pages)[i].region.region_id : i \in 1..Len(AllRegions(pages))}

\* What the text layer and the recognizer give for every region
ReadablePdf == [b \in BBoxesInUse |->
                  [text_layer |-> TextLayerGives(ProseText),
                   ocr |-> <<Recognizes(ScannedTitle),
                             Recognizes(ScannedTitle)>>]]

NextEditing ==
    \/ \E pl \in PlaceSamples, a \in ArticleIdSamples :
          updated_at < MaxUpdates /\ AddRegion(pl.page_index, pl.bbox, a, None)
    \/ \E id \in RegionIdsInUse :
          updated_at < MaxUpdates /\ DeleteRegion(id)
    \/ \E c \in BOOLEAN : BuildArticleText(c, TRUE, ReadablePdf)

SpecEditing == Init /\ [][NextEditing]_vars

(***************************************************************************)
(* Annotation files (app/core/storage.py, AnnotationDoc.to_dict and        *)
(* from_dict).  The JSON text of a file is a sequence of pieces in the     *)
(* order json.dump writes them: the opening piece with updated_at, for     *)
(* every page its key followed by its regions, and the closing piece with  *)
(* the articles and the settings.  With each region the file model keeps   *)
(* the DPI of the page image the region was drawn on.                      *)
(***************************************************************************)
HeadPiece(upd) == [piece |-> "head", updated_at |-> upd]

PagePiece(page_index) == [piece |-> "page", page_index |-> page_index]

RegionPiece(region, drawn) ==
    [piece |-> "region", region |-> region,
     drawn_at |-> IF region.region_id \in DOMAIN drawn
                  THEN drawn[region.region_id] ELSE None]

TailPiece(arts, prefs) == [piece |-> "tail", articles |-> arts, settings |-> prefs]

\* json.dumps(annotation_doc.to_dict())
to_dict(pgs, arts, prefs, upd, drawn) ==
    LET keys == SortedSeq(DOMAIN pgs)
    IN  <<HeadPiece(upd)>>
        \o Concat([k \in 1..Len(keys) |->
                     <<PagePiece(keys[k])>>
                     \o [i \in 1..Len(pgs[keys[k]]) |->
                           RegionPiece(pgs[keys[k]][i], drawn)]])
        \o <<TailPiece(arts, prefs)>>

\* json.load accepts the text: one complete object and nothing after it
IsAnnotationJson(content) ==
    /\ Len(content) >= 2
    /\ content[1].piece = "head"
    /\ content[Len(content)].piece = "tail"
    /\ \A i \in 2..(Len(content) - 1) : content[i].piece \in {"page", "region"}
    /\ Len(content) > 2 => content[2].piece = "page"

\* AnnotationDoc.from_dict(json.load(f)) of a text json.load accepts
from_dict(content) ==
    LET page_at == {i \in 1..Len(content) : content[i].piece = "page"}
        owner(i) == Max({j \in page_at : j < i})
        region_at(j) == SelectSeq(Indices(content), LAMBDA i :
                            content[i].piece = "region" /\ owner(i) = j)
        key_at(p) == CHOOSE j \in page_at : content[j].page_index = p
        regions == {i \in 1..Len(content) : content[i].piece = "region"}
    IN  [pages |-> [p \in {content[j].page_index : j \in page_at} |->
                      [k \in 1..Len(region_at(key_at(p))) |->
                          content[region_at(key_at(p))[k]].region]],
         articles |-> content[Len(content)].articles,
         settings |-> content[Len(content)].settings,
         updated_at |-> content[1].updated_at,
         rendered |-> [id \in {content[i].region.region_id : i \in regions} |->
                         content[CHOOSE i \in regions :
                                    content[i].region.region_id = id].drawn_at]]

\* AnnotationDoc(source_pdf=...): the document of a PDF without a file
NewDoc ==
    [pages |-> NoPages, articles |-> <<>>, settings |-> DefaultSettings,
     updated_at |-> 0, rendered |-> NoRendered]

\* load_annotations: the document of the file, a new document when there is
\* no file; json.load raises on a text that is not one JSON object
load_annotations(file) ==
    IF ~file.exists THEN [raised |-> "none", doc |-> NewDoc]
    ELSE IF IsAnnotationJson(file.content)
    THEN [raised |-> "none", doc |-> from_dict(file.content)]
    ELSE [raised |-> "JSONDecodeError", doc |-> NewDoc]

\* open(annotation_path, "w"): the file exists and is empty
open_for_writing(file) == [exists |-> TRUE, content |-> <<>>]

\* json.dump and the close of the file: the text is written from the start
\* of the file over what the file holds by then
write_from_start(file, content) ==
    [exists |-> TRUE,
     content |-> content \o SubSeq(file.content, Len(content) + 1,
                                   Len(file.content))]

\* save_annotations when nothing else writes the file meanwhile
save_annotations(file, content) ==
    write_from_start(open_for_writing(file), content)

(***************************************************************************)
(* The Streamlit application (app/main.py, app/ui/annotate.py): one script *)
(* run per user action.  The PDFs are numbered; the regions of a document  *)
(* are numbered from 1 in each document.                                   *)
(***************************************************************************)
\* The ends and the default of the DPI slider
SliderDpis == {150, 200, 300}

\* The ids of the regions of a page map
RegionIdsOf(pgs) ==
    {AllRegions(pgs)[i].region.region_id : i \in 1..Len(AllRegions(pgs))}

\* The selected PDF differs from current_pdf: load_pdf.  The document of
\* the PDF shown so far is saved under that PDF's path
\* (save_current_annotations reads current_pdf before it is reassigned),
\* current_pdf is set, the document of the selected PDF is loaded, its
\* settings are overwritten from the session's config and the extracted
\* texts are cleared.  When load_annotations raises, current_pdf has been
\* set and nothing else.
SelectPdf(pdf) ==
    /\ session.current_pdf # pdf
    /\ LET saved ==
               IF session.current_pdf # None
               THEN [disk EXCEPT ![session.current_pdf] =
                        save_annotations(@, to_dict(pages, articles, settings,
                                                    updated_at, rendered))]
               ELSE disk
           loaded == load_annotations(saved[pdf])
       IN  /\ disk' = saved
           /\ session' = [session EXCEPT !.current_pdf = pdf]
           /\ IF loaded.raised # "none"
              THEN /\ response' = [op |-> "load_pdf", raised |-> loaded.raised]
                   /\ UNCHANGED <<pages, articles, settings, updated_at,
                                  next_region, rendered, extracted_texts>>
              ELSE /\ pages' = loaded.doc.pages
                   /\ articles' = loaded.doc.articles
                   /\ updated_at' = loaded.doc.updated_at
                   /\ next_region' = Max(RegionIdsOf(loaded.doc.pages) \cup {0})
                   /\ rendered' = loaded.doc.rendered
                   /\ settings' =
                         [dpi |-> session.config.dpi,
                          prefer_pdf_text_layer |-> session.config.prefer_pdf_text]
                   /\ extracted_texts' = <<>>
                   /\ response' = [op |-> "load_pdf", raised |-> "none"]
    /\ UNCHANGED <<edited_text, clients, call, text, cleaned>>

\* The DPI slider is moved: render_sidebar stores its value in the config
MoveDpiSlider(dpi) ==
    /\ session.config.dpi # dpi
    /\ session' = [session EXCEPT !.config.dpi = dpi]
    /\ UNCHANGED <<docVars, rendered, extracted_texts, edited_text, disk,
                   clients, call, text, cleaned>>

\* The "Add Region" form is submitted.  The page image is rendered at the
\* config's DPI; render_article_controls has replaced a selection that is
\* not an article of the document when the document has articles;
\* handle_new_region creates an article when none is selected.
SubmitRegion(page_index, bbox) ==
    /\ session.current_pdf # None
    /\ RegionCount < MaxRegions
    /\ LET selected ==
               IF /\ articles # <<>>
                  /\ session.selected_article \notin ArticleIds(articles)
               THEN SortedSeq(ArticleIds(articles))[1]
               ELSE session.selected_article
           a == IF selected = None
                THEN add_article(articles, None)
                ELSE [article_id |-> selected, created |-> FALSE,
                      articles |-> articles]
           r == add_region(pages, a.articles, next_region + 1, page_index,
                           bbox, a.article_id, None)
       IN  /\ pages' = r.pages
           /\ articles' = r.articles
           /\ updated_at' = updated_at + (IF a.created THEN 1 ELSE 0)
                                + r.refreshes
           /\ next_region' = next_region + 1
           /\ session' = [session EXCEPT !.selected_article = a.article_id]
           /\ rendered' = [id \in DOMAIN rendered \cup {r.region_id} |->
                              IF id = r.region_id THEN session.config.dpi
                              ELSE rendered[id]]
           /\ response' = [op |-> "add_region", region_id |-> r.region_id]
    /\ UNCHANGED <<settings, extracted_texts, edited_text, disk, clients,
                   call, text, cleaned>>

\* What the text layer and the recognizer give for every region while the
\* application runs
SessionPdf == [b \in BBoxesInUse |->
                 [text_layer |-> TextLayerGives(ProseText),
                  ocr |-> <<Recognizes(ScannedTitle), Recognizes(ScannedTitle)>>]]

\* An entry of st.session_state.extracted_texts, and the PDF its text was
\* extracted from
CachedText(entry, pdf) ==
    [article_id |-> entry.article_id, text |-> entry.text,
     regions_metadata |-> entry.regions_metadata, pdf |-> pdf]

\* render_article_editor for the articles ids, in order, until one raises:
\* an article without an entry is skipped; the average quality divides by
\* the number of records; the edited text is initialised from the entry
\* when its key is not in the session, and the text area's value is written
\* back into the entry.
RECURSIVE render_article_editors(_, _, _)
render_article_editors(ids, texts, edited) ==
    IF ids = <<>> THEN [raised |-> "none", texts |-> texts, edited |-> edited]
    ELSE LET at == {k \in 1..Len(texts) : texts[k].article_id = Head(ids)}
         IN  IF at = {} THEN render_article_editors(Tail(ids), texts, edited)
             ELSE LET k == CHOOSE k \in at : TRUE
                      now == IF Head(ids) \in DOMAIN edited THEN edited
                             ELSE [a \in DOMAIN edited \cup {Head(ids)} |->
                                     IF a = Head(ids)
                                     THEN [text |-> texts[k].text,
                                           pdf |-> texts[k].pdf]
                                     ELSE edited[a]]
                  IN  IF Len(texts[k].regions_metadata) = 0
                      THEN [raised |-> "ZeroDivisionError", texts |-> texts,
                            edited |-> edited]
                      ELSE render_article_editors(Tail(ids),
                               [texts EXCEPT ![k].text = now[Head(ids)].text,
                                             ![k].pdf = now[Head(ids)].pdf],
                               now)

\* render_editor_interface after the button: nothing is shown for a
\* document without articles or without extracted texts
render_editor_interface(arts, texts, edited) ==
    IF arts = <<>> \/ texts = <<>>
    THEN [raised |-> "none", texts |-> texts, edited |-> edited]
    ELSE render_article_editors(SortedSeq(ArticleIds(arts)), texts, edited)

\* extract_all_articles: the extracted texts are replaced unless
\* build_article_text raised
extract_all_articles(r, texts, pdf) ==
    IF r.raised = "none"
    THEN [k \in 1..Len(r.results) |-> CachedText(r.results[k], pdf)]
    ELSE texts

\* What the script run of the button leaves in the session: the outcome of
\* the build and of the editors, the entries and the edited texts
ShowEditors(r, shown) ==
    /\ response' = [op |-> "extract_all_articles", build |-> r,
                    editor |-> shown.raised]
    /\ extracted_texts' = shown.texts
    /\ edited_text' = shown.edited

\* The script run of "Build Article Text": the editor shows the button
\* when the document has articles; extract_all_articles replaces the
\* extracted texts unless build_article_text raised, and the rest of
\* render_editor_interface shows the editors of the articles.  (The script
\* runs of the other actions show the editors again: the edited texts have
\* their keys by then and the entries hold them, so nothing changes.)
ExtractAllArticles ==
    /\ session.current_pdf # None
    /\ articles # <<>>
    /\ response.op # "extract_all_articles"
    /\ LET r == build_article_text(pages, articles, settings, TRUE, TRUE,
                                   SessionPdf)
       IN  ShowEditors(r, render_editor_interface(articles,
                              extract_all_articles(r, extracted_texts,
                                                   session.current_pdf),
                              edited_text))
    /\ UNCHANGED <<pages, articles, settings, updated_at, next_region, session,
                   rendered, disk, clients, call, text, cleaned>>

\* The "Delete" button of a region in the region list
ClickDelete(region_id) ==
    /\ session.current_pdf # None
    /\ DeleteRegion(region_id)

\* A session that stays with the PDF it loads first
NextSession ==
    \/ \E pdf \in PdfNames : session.current_pdf = None /\ SelectPdf(pdf)
    \/ \E dpi \in SliderDpis : MoveDpiSlider(dpi)
    \/ \E pl \in PlaceSamples : SubmitRegion(pl.page_index, pl.bbox)
    \/ ExtractAllArticles

SpecSession == Init /\ [][NextSession]_vars

\* The place regions are drawn at in a session that switches between PDFs
SwitchPlace == CHOOSE pl \in PlaceSamples : pl.page_index = 0 /\ pl.bbox.y = 10

\* A session that switches between the PDFs, at the default DPI
NextSwitch ==
    \/ \E pdf \in PdfNames : SelectPdf(pdf)
    \/ SubmitRegion(SwitchPlace.page_index, SwitchPlace.bbox)
    \/ ExtractAllArticles

SpecSwitch == Init /\ [][NextSwitch]_vars

\* A session that stays with the PDF it loads first, at the default DPI,
\* in which regions are drawn and deleted
NextEditor ==
    \/ \E pdf \in PdfNames : session.current_pdf = None /\ SelectPdf(pdf)
    \/ \E pl \in PlaceSamples : SubmitRegion(pl.page_index, pl.bbox)
    \/ \E id \in RegionIdsOf(pages) :
          updated_at < MaxUpdates /\ ClickDelete(id)
    \/ ExtractAllArticles

SpecEditor == Init /\ [][NextEditor]_vars

(***************************************************************************)
(* Two clients of the web application (webapp/routes.py) work on the       *)
(* annotations of one PDF.  A client holds the document as the JSON the    *)
(* routes answer with; the server keeps nothing between requests.  The     *)
(* requests of the two clients are served by different threads, so a save  *)
(* request is two steps: open(annotation_path, "w") truncates the file,    *)
(* json.dump and the close write the text from the start of the file.      *)
(***************************************************************************)
ClientIds == {1, 2}

\* The PDF both clients work on
StoragePdf == 1

NewClient == [phase |-> "new", doc |-> NewDoc, saved |-> <<>>, finished |-> 0]

\* The text a client's save request writes
ClientJson(c) ==
    to_dict(clients[c].doc.pages, clients[c].doc.articles,
            clients[c].doc.settings, clients[c].doc.updated_at, NoRendered)

\* POST /api/annotations/load: the client gets the document of the file,
\* or status 500 when load_annotations raises
LoadAnnotations(c) ==
    /\ clients[c].phase = "new"
    /\ LET r == load_annotations(disk[StoragePdf])
       IN  IF r.raised # "none"
           THEN /\ response' = [op |-> "load_annotations", status |-> 500]
                /\ UNCHANGED clients
           ELSE /\ response' = [op |-> "load_annotations", status |-> 200]
                /\ clients' = [clients EXCEPT ![c].phase = "editing",
                                              ![c].doc = r.doc]
    /\ UNCHANGED <<pages, articles, settings, updated_at, next_region, session,
                   rendered, extracted_texts, edited_text, disk, call, text,
                   cleaned>>

\* POST /api/region/add: the client draws a region for its own article and
\* keeps the document of the answer
ClientAddRegion(c, page_index, bbox) ==
    /\ clients[c].phase = "editing"
    /\ Len(AllRegions(clients[c].doc.pages)) < MaxRegions
    /\ LET doc == clients[c].doc
           r == add_region(doc.pages, doc.articles,
                           Max(RegionIdsOf(doc.pages) \cup {0}) + 1,
                           page_index, bbox, c, None)
       IN  /\ clients' = [clients EXCEPT
                            ![c].doc.pages = r.pages,
                            ![c].doc.articles = r.articles,
                            ![c].doc.updated_at = @ + r.refreshes]
           /\ response' = [op |-> "add_region", status |-> 200]
    /\ UNCHANGED <<pages, articles, settings, updated_at, next_region, session,
                   rendered, extracted_texts, edited_text, disk, call, text,
                   cleaned>>

\* POST /api/annotations/save, first half: save_annotations opens the file
BeginSave(c) ==
    /\ clients[c].phase = "editing"
    /\ clients' = [clients EXCEPT ![c].phase = "writing"]
    /\ disk' = [disk EXCEPT ![StoragePdf] = open_for_writing(@)]
    /\ UNCHANGED <<docVars, session, rendered, extracted_texts, edited_text,
                   call, text, cleaned>>

\* POST /api/annotations/save, second half: the text is written and the
\* request answers; the client's record notes what was written and the
\* rank of the save among the finished ones
FinishSave(c) ==
    /\ clients[c].phase = "writing"
    /\ disk' = [disk EXCEPT ![StoragePdf] = write_from_start(@, ClientJson(c))]
    /\ clients' = [clients EXCEPT
                     ![c].phase = "saved",
                     ![c].saved = ClientJson(c),
                     ![c].finished =
                        1 + Max({clients[d].finished : d \in ClientIds})]
    /\ response' = [op |-> "save_annotations", status |-> 200]
    /\ UNCHANGED <<pages, articles, settings, updated_at, next_region, session,
                   rendered, extracted_texts, edited_text, call, text, cleaned>>

InitStorage ==
    /\ EmptyDoc
    /\ session = NoSession
    /\ rendered = NoRendered
    /\ extracted_texts = <<>>
    /\ edited_text = NoEditedText
    /\ disk = [pdf \in PdfNames |-> NoFile]
    /\ clients = [c \in ClientIds |-> NewClient]
    /\ call = NoCall
    /\ text = <<>>
    /\ cleaned = FALSE

NextStorage ==
    \/ \E c \in ClientIds : LoadAnnotations(c)
    \/ \E c \in ClientIds, pl \in PlaceSamples :
          ClientAddRegion(c, pl.page_index, pl.bbox)
    \/ \E c \in ClientIds : BeginSave(c)
    \/ \E c \in ClientIds : FinishSave(c)

SpecStorage == InitStorage /\ [][NextStorage]_vars

(***************************************************************************)
(* The editor's "Apply Cleanup" button (app/ui/editor.py)                  *)
(***************************************************************************)
ApplyCleanup ==
    /\ text' = cleanup_text(text)
    /\ cleaned' = TRUE
    /\ UNCHANGED <<docVars, sessionVars, call>>

InitCleanup ==
    /\ EmptyDoc
    /\ FreshSession
    /\ call = NoCall
    /\ text \in Texts
    /\ cleaned = FALSE

NextCleanup == ApplyCleanup

SpecCleanup == InitCleanup /\ [][NextCleanup]_vars

(***************************************************************************)
(* One call of re_extract_region                                           *)
(***************************************************************************)
ReExtractRegion ==
    /\ call.state = "pending"
    /\ call' = [call EXCEPT
                  !.state = "done",
                  !.result = re_extract_region(call.page_index, call.region,
                                               call.force_ocr, call.env)]
    /\ UNCHANGED <<docVars, sessionVars, text, cleaned>>

InitExtract ==
    /\ EmptyDoc
    /\ FreshSession
    /\ text = <<>>
    /\ cleaned = FALSE
    /\ call \in [state : {"pending"}, page_index : PageIndices,
                 region : RegionSamples, force_ocr : BOOLEAN, env : CallEnvs,
                 result : {CallResult("none", <<>>, NoMetadata, NotQueried, <<>>)}]

NextExtract == ReExtractRegion

SpecExtract == InitExtract /\ [][NextExtract]_vars

(***************************************************************************)
(* One assessment of a text by the quality heuristics: what                *)
(* extract_region_text asks of should_fallback_to_ocr and                  *)
(* calculate_quality_score.                                                *)
(***************************************************************************)
\* The longest sample text below the long ones
MaxChars == 41

\* Lengths around the 100-character threshold of the score
LongLengths == {99, 100, 101}

\* The units the sample texts repeat: prose, two thirds alphanumeric, a
\* quarter alphanumeric, isolated letters, a long word among isolated
\* letters, symbols only, whitespace only.
Cycles ==
    {<<"l", "o", "r", "e", "m", " ", "i", "p", "s", "u", "m", " ">>,
     <<"a", "b", "#">>,
     <<"a", "#", "%", " ">>,
     <<"a", " ">>,
     <<"a", "b", "c", "d", "e", "f", " ", "g", "h", "i", "j", " ", "k", "l",
       "m", "n", " ", "o", "p", " ", "x", " ">>,
     <<"#">>,
     <<" ", NL>>}

\* The first n characters of the endless repetition of cycle
Prefix(cycle, n) == [i \in 1..n |-> cycle[((i - 1) % Len(cycle)) + 1]]

\* The texts assessed: a sample of every length, bare or after two blanks
HeuristicTexts ==
    {Prefix(<<" ">>, pad) \o Prefix(c, n) :
        pad \in {0, 2}, c \in Cycles, n \in (0..MaxChars) \cup LongLengths}

AssessText ==
    /\ call.state = "pending"
    /\ call' = [state |-> "done",
                should_fallback |-> should_fallback_to_ocr(text),
                quality_score |-> calculate_quality_score(text)]
    /\ UNCHANGED <<docVars, sessionVars, text, cleaned>>

InitHeuristics ==
    /\ EmptyDoc
    /\ FreshSession
    /\ text \in HeuristicTexts
    /\ cleaned = FALSE
    /\ call = [state |-> "pending"]

NextHeuristics == AssessText

SpecHeuristics == InitHeuristics /\ [][NextHeuristics]_vars

(***************************************************************************)
(* Pixel space to PDF space (app/core/pdf_io.py).  The coordinates are     *)
(* Python floats; here they are exact fractions [num, den] in lowest terms *)
(* with a positive denominator, so that equal numbers are equal records.   *)
(***************************************************************************)
Abs(n) == IF n < 0 THEN -n ELSE n

RECURSIVE GCD(_, _)
GCD(a, b) == IF b = 0 THEN a ELSE GCD(b, a % b)

\* n / d in lowest terms (d # 0)
Frac(n, d) ==
    LET g == GCD(Abs(n), Abs(d))
        sign == IF d < 0 THEN -1 ELSE 1
    IN  [num |-> (sign * n) \div g, den |-> (sign * d) \div g]

Whole(n) == Frac(n, 1)

FracSub(a, b) == Frac(a.num * b.den - b.num * a.den, a.den * b.den)

FracMul(a, b) == Frac(a.num * b.num, a.den * b.den)

FracDiv(a, b) == Frac(a.num * b.den, a.den * b.num)

FracLeq(a, b) == a.num * b.den <= b.num * a.den

\* bbox_pixels_to_pdf with the y-axis left as it is
bbox_pixels_to_pdf_unflipped(bbox_pixels, page_width_points, page_height_points, dpi) ==
    LET scale == FracDiv(Whole(dpi), Whole(72))
    IN  [x0 |-> FracDiv(Whole(bbox_pixels.x), scale),
         y0 |-> FracDiv(Whole(bbox_pixels.y), scale),
         x1 |-> FracDiv(Whole(bbox_pixels.x + bbox_pixels.w), scale),
         y1 |-> FracDiv(Whole(bbox_pixels.y + bbox_pixels.h), scale)]

\* The fitz.Rect returned, as its four coordinates
bbox_pixels_to_pdf(bbox_pixels, page_width_points, page_height_points, dpi) ==
    LET scale == FracDiv(Whole(dpi), Whole(72))
        page_height_pixels == FracMul(Whole(page_height_points), scale)
        x0 == FracDiv(Whole(bbox_pixels.x), scale)
        y0 == FracDiv(FracSub(FracSub(page_height_pixels,
                                      Whole(bbox_pixels.y)),
                              Whole(bbox_pixels.h)),
                      scale)
        x1 == FracDiv(Whole(bbox_pixels.x + bbox_pixels.w), scale)
        y1 == FracDiv(FracSub(page_height_pixels, Whole(bbox_pixels.y)),
                      scale)
    IN  [x0 |-> x0, y0 |-> y0, x1 |-> x1, y1 |-> y1]

\* Pixel boxes drawn on a page image, with empty ones among them
PixelBBoxes == [x : {0, 50, 333}, y : {0, 100, 417}, w : {0, 1, 250},
                h : {0, 1, 300}]

\* Letter and A4, in points
PageSizes == {[width |-> 612, height |-> 792], [width |-> 595, height |-> 842]}

\* The ends and the default of the DPI slider, and the DPI of scale 1
DpiSamples == {72, 150, 200, 300}

MapBBox ==
    /\ call.state = "pending"
    /\ call' = [call EXCEPT
                  !.state = "done",
                  !.rect = bbox_pixels_to_pdf(call.bbox, call.page.width,
                                              call.page.height, call.dpi)]
    /\ UNCHANGED <<docVars, sessionVars, text, cleaned>>

InitMapper ==
    /\ EmptyDoc
    /\ FreshSession
    /\ text = <<>>
    /\ cleaned = FALSE
    /\ call \in [state : {"pending"}, bbox : PixelBBoxes, page : PageSizes,
                 dpi : DpiSamples, rect : {None}]

NextMapper == MapBBox

SpecMapper == InitMapper /\ [][NextMapper]_vars

(***************************************************************************)
(* The text layer inside a rectangle (app/core/pdf_io.py).  What           *)
(* page.get_text("blocks", clip) gives is a list of blocks; a block is     *)
(* its left edge x0 and top edge y0, in tenths of a point, its text and    *)
(* its type (0 text, 1 image).                                             *)
(***************************************************************************)
\* Python's round(n / d) for d > 0: to the nearest integer, a tie to the
\* even one
RoundHalfEven(n, d) ==
    LET q == n \div d
        r == n % d
    IN  IF 2 * r < d THEN q
        ELSE IF 2 * r > d THEN q + 1
        ELSE IF q % 2 = 0 THEN q ELSE q + 1

\* The sort key with the y position as it is
SortKey_unquantized(y0, x0) == <<y0, x0>>

\* (round(y / 5) * 5, x), in tenths of a point
SortKey(y0, x0) == <<RoundHalfEven(y0, 50) * 50, x0>>

\* Tuples of two numbers as Python compares them
KeyLess(a, b) == a[1] < b[1] \/ (a[1] = b[1] /\ a[2] < b[2])

\* list.sort(key=...) of blocks that have fields y and x: a stable sort
SortBlocks(s) ==
    LET key(i) == SortKey(s[i].y, s[i].x)
        pos(i) == 1 + Cardinality({j \in 1..Len(s) :
                        \/ KeyLess(key(j), key(i))
                        \/ (~KeyLess(key(i), key(j)) /\ j < i)})
    IN  [k \in 1..Len(s) |-> s[CHOOSE i \in 1..Len(s) : pos(i) = k]]

\* The text blocks among the blocks, as the loops of both functions format
\* them: text stripped, top and left edge, and the block's number
FormatBlocks(blocks) ==
    LET kept == SelectSeq(Indices(blocks), LAMBDA i : blocks[i].block_type = 0)
    IN  [k \in 1..Len(kept) |->
            [text |-> Strip(blocks[kept[k]].text),
             y |-> blocks[kept[k]].y0,
             x |-> blocks[kept[k]].x0,
             block_no |-> kept[k]]]

\* The texts of the blocks that have one
NonEmptyTexts(text_blocks) ==
    LET kept == SelectSeq(text_blocks, LAMBDA b : b.text # <<>>)
    IN  [k \in 1..Len(kept) |-> kept[k].text]

extract_text_in_bbox(blocks) ==
    IF blocks = <<>> THEN <<>>
    ELSE Join(NonEmptyTexts(SortBlocks(FormatBlocks(blocks))), <<NL>>)

extract_text_blocks_in_bbox(blocks) == SortBlocks(FormatBlocks(blocks))

\* The most blocks inside a rectangle
MaxBlocks == 3

\* Blocks at y 10, 10.2 and 50 with x 80, 10 and 5; blocks at the edges of
\* the bucket of 10 (7.5 and 12.5) and in the next one (13); a block with the
\* position of the first; a block of whitespace; an image.
BlockSamples ==
    {[x0 |-> 80, y0 |-> 100, text |-> <<"a", NL>>, block_type |-> 0],
     [x0 |-> 10, y0 |-> 102, text |-> <<"b", NL>>, block_type |-> 0],
     [x0 |-> 5, y0 |-> 500, text |-> <<"c", NL>>, block_type |-> 0],
     [x0 |-> 90, y0 |-> 75, text |-> <<"d", NL>>, block_type |-> 0],
     [x0 |-> 20, y0 |-> 125, text |-> <<"e", NL>>, block_type |-> 0],
     [x0 |-> 5, y0 |-> 130, text |-> <<"f", NL>>, block_type |-> 0],
     [x0 |-> 80, y0 |-> 100, text |-> <<"g", " ", "h", NL>>, block_type |-> 0],
     [x0 |-> 10, y0 |-> 100, text |-> <<" ", NL>>, block_type |-> 0],
     [x0 |-> 0, y0 |-> 0, text |-> <<"i">>, block_type |-> 1]}

BlockLists ==
    UNION {[1..n -> BlockSamples] : n \in 0..MaxBlocks}

ExtractTextLayer ==
    /\ call.state = "pending"
    /\ call' = [call EXCEPT
                  !.state = "done",
                  !.text = extract_text_in_bbox(call.blocks),
                  !.text_blocks = extract_text_blocks_in_bbox(call.blocks)]
    /\ UNCHANGED <<docVars, sessionVars, text, cleaned>>

InitTextLayer ==
    /\ EmptyDoc
    /\ FreshSession
    /\ text = <<>>
    /\ cleaned = FALSE
    /\ call \in [state : {"pending"}, blocks : BlockLists, text : {<<>>},
                 text_blocks : {<<>>}]

NextTextLayer == ExtractTextLayer

SpecTextLayer == InitTextLayer /\ [][NextTextLayer]_vars

(***************************************************************************)
(* Properties of one extract_region_text call (SpecExtract)                *)
(***************************************************************************)
CallDone == call.state = "done"

CallReturned == CallDone /\ call.result.raised = "none"

PrefersTextLayer == ~call.force_ocr

\* The text layer was asked and answered with a text (it did not raise).
TextLayerAnswered == PrefersTextLayer /\ ~call.env.text_layer.raises

\* The call cannot finish without the OCR path.
NeedsOcr ==
    \/ ~PrefersTextLayer
    \/ call.env.text_layer.raises
    \/ should_fallback_to_ocr(call.env.text_layer.text)

\* C1: when a call needs OCR and Tesseract is not installed, the call raises
\* TesseractNotFoundError whatever render-and-crop did; it never returns.
C1_EngineUnavailablePropagates ==
    (CallDone /\ NeedsOcr /\ ~call.env.tesseract)
        => call.result.raised = "TesseractNotFoundError"

\* C2: when the text layer answers with t, a returned record has method "ocr"
\* exactly if should_fallback_to_ocr(t); if t is acceptable the call returns
\* t itself with method "pdf_text" and never enters the OCR path.
C2_MethodFollowsQuality ==
    (CallDone /\ TextLayerAnswered) =>
        LET t == call.env.text_layer.text
        IN  /\ CallReturned =>
                (call.result.metadata.method = "ocr" <=> should_fallback_to_ocr(t))
            /\ ~should_fallback_to_ocr(t) =>
                /\ CallReturned
                /\ call.result.metadata.method = "pdf_text"
                /\ call.result.text = t
                /\ call.result.ocr_results = <<>>

\* The spec's example: the text layer gives "a b c d e f" and the record
\* says "ocr".
C2_Witness ==
    /\ CallReturned
    /\ TextLayerAnswered
    /\ call.env.text_layer.text = SpacedLetters
    /\ call.result.metadata.method = "ocr"

\* C3: with prefer_pdf_text false (force_ocr) the text layer is never
\* queried, the OCR path is entered, and a returned record has method "ocr".
C3_ForcedOcrSkipsTextLayer ==
    (CallDone /\ call.force_ocr) =>
        /\ ~call.result.text_layer.queried
        /\ Len(call.result.ocr_results) >= 1
        /\ CallReturned => call.result.metadata.method = "ocr"

\* A forced-OCR call on a region whose text layer would have been accepted.
C3_Witness ==
    /\ CallReturned
    /\ call.force_ocr
    /\ ~call.env.text_layer.raises
    /\ ~should_fallback_to_ocr(call.env.text_layer.text)
    /\ call.result.metadata.method = "ocr"
    /\ call.result.text = ScannedText

\* C4: when the text-layer extraction raises, its exception does not leave
\* the call; the OCR path is entered and a returned record has method "ocr"
\* and the text that _ocr_region produced.
C4_TextLayerExceptionFallsBack ==
    (CallDone /\ PrefersTextLayer /\ call.env.text_layer.raises) =>
        /\ call.result.raised \in {"none", "TesseractNotFoundError"}
        /\ Len(call.result.ocr_results) = 1
        /\ CallReturned =>
            /\ call.result.metadata.method = "ocr"
            /\ call.result.text = call.result.ocr_results[1].text

C4_Witness ==
    /\ CallReturned
    /\ PrefersTextLayer
    /\ call.env.text_layer.raises
    /\ call.result.metadata.method = "ocr"
    /\ call.result.text = ScannedText

\* C6: a returned record describes the returned text and the region passed
\* in: its score is calculate_quality_score of that text, its length is the
\* text's length, its ids are the region's and the page's.
C6_RecordDescribesFinalText ==
    CallReturned =>
        /\ call.result.metadata.quality_score
               = calculate_quality_score(call.result.text)
        /\ call.result.metadata.text_length = Len(call.result.text)
        /\ call.result.metadata.region_id = call.region.region_id
        /\ call.result.metadata.page_index = call.page_index

\* A fallback whose OCR text differs from the text-layer text in both score
\* and length, on the second region and the second page.
C6_Witness ==
    /\ CallReturned
    /\ TextLayerAnswered
    /\ call.env.text_layer.text = SpacedLetters
    /\ call.result.text = ProseText
    /\ call.result.metadata.quality_score = 600
    /\ call.result.metadata.text_length = 48
    /\ call.region.region_id = 2
    /\ call.page_index = 1

(***************************************************************************)
(* Properties of cleanup_text (SpecCleanup)                                *)
(***************************************************************************)
\* C10: cleanup_text is idempotent: cleaning a cleaned text changes nothing.
C10_CleanupIdempotent == cleaned => cleanup_text(text) = text

\* sub occurs in s as a run of consecutive characters
Contains(s, sub) ==
    \E i \in 0..(Len(s) - Len(sub)) : SubSeq(s, i + 1, i + Len(sub)) = sub

\* The lines the soft-wrap loop of cleanup_text walks over for the text t
SoftWrapLines(t) == SplitOn(Dehyphenate(t, 1), NL)

\* C11: when the first two lines the soft-wrap step sees meet the joining
\* condition (the current line is non-empty and does not end in one of
\* . ! ? : ", the next line is non-empty and starts with a lowercase letter),
\* the cleaned text contains the two lines joined by a single space: the text
\* of both lines is preserved.
C11_JoinedLinesArePreserved ==
    [][ApplyCleanup =>
        LET lines == SoftWrapLines(text)
        IN  (/\ Len(lines) >= 2
             /\ ShouldJoin(RStrip(lines[1]), LStrip(lines[2])))
            => Contains(text', Strip(lines[1]) \o <<" ">> \o Strip(lines[2]))
      ]_vars

\* No line of t is merged with its successor by the soft-wrap loop.
NoLineJoins(t) ==
    LET lines == SoftWrapLines(t)
    IN  \A i \in 1..(Len(lines) - 1) :
            ~ShouldJoin(RStrip(lines[i]), LStrip(lines[i + 1]))

\* C12: for every occurrence in the text of a letter, a hyphen, optional
\* whitespace, a newline, optional whitespace and a letter, the cleaned text
\* has the two letters next to each other: the hyphen and the line break
\* between them are removed.  (Stated for the texts in which the soft-wrap
\* step merges no lines, so that only the de-hyphenation step is at work.)
C12_HyphenatedWordsAreRejoined ==
    [][(ApplyCleanup /\ NoLineJoins(text)) =>
        \A i \in 1..Len(text) :
            HyphenMatchEnd(text, i) # 0
            => Contains(text', <<text[i], text[HyphenMatchEnd(text, i)]>>)
      ]_vars

(***************************************************************************)
(* Properties of the quality heuristics (SpecHeuristics)                   *)
(***************************************************************************)
Assessed == call.state = "done"

\* C13: a text of fewer than 40 characters is always sent to OCR and scores
\* at most 0.3.
C13_ShortTextIsLowQuality ==
    (Assessed /\ Len(text) < 40)
        => (call.should_fallback /\ call.quality_score <= 300)

\* 39 characters of clean prose: nothing but its length is wrong with it
C13_Witness ==
    /\ Assessed
    /\ Len(text) = 39
    /\ text = Strip(text)
    /\ 100 * CountAlnum(text) >= 65 * Len(text)
    /\ IsolatedLetters(text) = 0
    /\ call.should_fallback
    /\ call.quality_score = 300

IsBlank(t) == \A i \in 1..Len(t) : IsSpace(t[i])

\* The three penalty factors, in tenths, of a text that is not blank
LengthPenalty(t) ==
    IF Len(Strip(t)) < 40 THEN 3 ELSE IF Len(Strip(t)) < 100 THEN 6 ELSE 10

RatioPenalty(t) ==
    LET n == CountAlnumOrSpace(Strip(t))
        d == Len(Strip(t))
    IN  IF 100 * n < 50 * d THEN 3 ELSE IF 100 * n < 70 * d THEN 6
        ELSE IF 100 * n < 85 * d THEN 9 ELSE 10

IsolatedPenalty(t) ==
    LET n == IsolatedLetters(Strip(t))
        d == CountWords(Strip(t))
    IN  IF 100 * n > 30 * d THEN 4 ELSE IF 100 * n > 15 * d THEN 7 ELSE 10

\* C14: the score lies in [0, 1]; it is 0.0 exactly when the text is empty
\* or whitespace only; otherwise it is the product of the length, the
\* alphanumeric-ratio and the isolated-letter penalty factors.
C14_ScoreIsBoundedProduct ==
    Assessed =>
        /\ call.quality_score \in 0..1000
        /\ (call.quality_score = 0) <=> IsBlank(text)
        /\ ~IsBlank(text) =>
              call.quality_score =
                  LengthPenalty(text) * RatioPenalty(text) * IsolatedPenalty(text)

\* A text of whitespace only has been scored 0.0
C14_Witness ==
    /\ Assessed
    /\ Len(text) >= 3
    /\ IsBlank(text)
    /\ call.quality_score = 0


(***************************************************************************)
(* Properties of build_article_text (Spec)                                 *)
(***************************************************************************)
BuildDone == response.op = "build_article_text"

BuildReturned == BuildDone /\ response.raised = "none"

\* the (page index, region) pairs of the document
RegionSet == {AllRegions(pages)[i] : i \in 1..Len(AllRegions(pages))}

RegionsOf(article_id) == {r \in RegionSet : r.region.article_id = article_id}

\* the calls the request made for one article, in the order it made them
CallsFor(article_id) ==
    SelectSeq(response.calls, LAMBDA c : c.article_id = article_id)

\* the entries of the returned map under one article id
EntriesFor(article_id) ==
    {a \in 1..Len(response.results) :
        response.results[a].article_id = article_id}

\* Every path fails for the region: the text layer raises or gives a text
\* that is rejected, and render-and-crop or the recognizer fails.
AllPathsFail(r) ==
    LET e == response.pdf[r.region.bbox]
    IN  /\ ~(e.ocr[1].crop_ok /\ e.ocr[1].recog_ok)
        /\ e.text_layer.raises \/ should_fallback_to_ocr(e.text_layer.text)

FailedRecord(m, r) ==
    /\ m.region_id = r.region.region_id
    /\ m.page_index = r.page_index
    /\ m.method = "ocr"
    /\ m.quality_score = 0
    /\ m.text_length = 0

\* C5: with Tesseract installed, a region for which every extraction path
\* fails gets a result all the same: its extract_region_text call returns ""
\* with a record of method "ocr", score 0.0 and length 0, and that record is
\* in the metadata list of the region's article.
C5_FailedRegionIsRecorded ==
    (BuildDone /\ response.tesseract) =>
        \A r \in RegionSet : AllPathsFail(r) =>
            /\ \E k \in 1..Len(response.calls) :
                  /\ response.calls[k].result.raised = "none"
                  /\ response.calls[k].result.text = <<>>
                  /\ FailedRecord(response.calls[k].result.metadata, r)
            /\ \E a \in EntriesFor(r.region.article_id) :
                  \E k \in 1..Len(response.results[a].regions_metadata) :
                      FailedRecord(response.results[a].regions_metadata[k], r)

\* An article with two regions: one fails on every path, the other gives text.
C5_Witness ==
    /\ BuildDone
    /\ response.tesseract
    /\ \E r, q \in RegionSet :
          /\ r.region.article_id = q.region.article_id
          /\ AllPathsFail(r)
          /\ \E a \in EntriesFor(r.region.article_id) :
                /\ Len(response.results[a].regions_metadata) = 2
                /\ \E k \in 1..2 :
                      FailedRecord(response.results[a].regions_metadata[k], r)
                /\ \E k \in 1..2 :
                      /\ response.results[a].regions_metadata[k].region_id
                            = q.region.region_id
                      /\ response.results[a].regions_metadata[k].text_length > 0

\* the number of blank lines ("\n\n") in a text
BlankLines(t) ==
    Cardinality({i \in 1..(Len(t) - 1) : t[i] = NL /\ t[i + 1] = NL})

NonBlank(t) == Strip(t) # <<>>

RegionById(region_id) == CHOOSE r \in RegionSet : r.region.region_id = region_id

\* r stands before q, or level with it, by (order, page index, bbox.y)
NotAfter(r, q) ==
    \/ r.region.order < q.region.order
    \/ /\ r.region.order = q.region.order
       /\ \/ r.page_index < q.page_index
          \/ /\ r.page_index = q.page_index
             /\ r.region.bbox.y <= q.region.bbox.y

\* The calls of the entry's article were made, one for each of its regions,
\* and their records placed, in increasing order, ties broken by the page
\* index and then by bbox.y.
AssembledInReadingOrder(entry) ==
    LET calls == CallsFor(entry.article_id)
        ids == [k \in 1..Len(calls) |-> calls[k].result.metadata.region_id]
    IN  /\ Len(calls) = Cardinality(RegionsOf(entry.article_id))
        /\ {ids[k] : k \in 1..Len(ids)}
              = {r.region.region_id : r \in RegionsOf(entry.article_id)}
        /\ \A k \in 1..(Len(ids) - 1) :
              NotAfter(RegionById(ids[k]), RegionById(ids[k + 1]))
        /\ entry.regions_metadata
              = [k \in 1..Len(calls) |-> calls[k].result.metadata]

\* The entry's text shows the texts of the calls in their order with a blank
\* line between them: literally when the text is not cleaned; when it is,
\* every text that is not blank still has its place between the blank lines.
TextShowsRegionTexts(entry) ==
    LET calls == CallsFor(entry.article_id)
        parts == [k \in 1..Len(calls) |-> calls[k].result.text]
        shown == SelectSeq(parts, NonBlank)
    IN  IF response.apply_cleanup
        THEN /\ shown # <<>> => entry.text # <<>>
             /\ BlankLines(entry.text) >= Len(shown) - 1
        ELSE entry.text = Join(parts, <<NL, NL>>)

\* C7: for every article the calls are made, and the records and the texts
\* placed, in the order of (order, page index, bbox.y); in
\* ExtractedText.text the text of each region stands before the text of the
\* next one, a blank line between them.
C7_TextsInReadingOrder ==
    BuildReturned =>
        \A a \in 1..Len(response.results) :
            /\ AssembledInReadingOrder(response.results[a])
            /\ TextShowsRegionTexts(response.results[a])

\* C8: an article without regions gets no extract_region_text call, so no
\* exception comes from it; when the request returns, the article's entry
\* has text "" and an empty metadata list; a document none of whose articles
\* has a region always returns.
C8_ArticleWithoutRegions ==
    BuildDone =>
        /\ \A i \in 1..Len(articles) :
              RegionsOf(articles[i].article_id) = {} =>
                  /\ CallsFor(articles[i].article_id) = <<>>
                  /\ BuildReturned =>
                        /\ EntriesFor(articles[i].article_id) # {}
                        /\ \A a \in EntriesFor(articles[i].article_id) :
                              /\ response.results[a].text = <<>>
                              /\ response.results[a].regions_metadata = <<>>
        /\ RegionSet = {} => BuildReturned

\* An article without regions next to an article whose region gave text.
C8_Witness ==
    /\ BuildReturned
    /\ \E i, j \in 1..Len(articles) :
          /\ RegionsOf(articles[i].article_id) = {}
          /\ response.results[i].text = <<>>
          /\ response.results[i].regions_metadata = <<>>
          /\ RegionsOf(articles[j].article_id) # {}
          /\ response.results[j].text # <<>>

\* C9: with Tesseract installed the request returns, whatever the text layer
\* and the OCR steps do in the regions; the result has one entry for each
\* article of the article map, and the entry one record for each region of
\* the article.
C9_BuildReturnsEveryArticle ==
    (BuildDone /\ response.tesseract) =>
        /\ BuildReturned
        /\ Len(response.results) = Len(articles)
        /\ \A i \in 1..Len(articles) :
              /\ Cardinality(EntriesFor(articles[i].article_id)) = 1
              /\ \A a \in EntriesFor(articles[i].article_id) :
                    LET records == response.results[a].regions_metadata
                    IN  /\ Len(records)
                              = Cardinality(RegionsOf(articles[i].article_id))
                        /\ \A r \in RegionsOf(articles[i].article_id) :
                              \E k \in 1..Len(records) :
                                  records[k].region_id = r.region.region_id

\* Two articles with a region each: in one the text layer raises and
\* render-and-crop fails, in the other the recognizer fails.
C9_Witness ==
    /\ BuildReturned
    /\ response.tesseract
    /\ Len(response.results) = 2
    /\ \E r, q \in RegionSet :
          /\ r.region.article_id # q.region.article_id
          /\ response.pdf[r.region.bbox].text_layer.raises
          /\ ~response.pdf[r.region.bbox].ocr[1].crop_ok
          /\ ~response.pdf[q.region.bbox].ocr[1].recog_ok
    /\ \A a \in 1..2 : Len(response.results[a].regions_metadata) = 1


(***************************************************************************)
(* Properties of bbox_pixels_to_pdf (SpecMapper)                           *)
(***************************************************************************)
Mapped == call.state = "done"

\* The inverse formula: from a rectangle in PDF space back to the pixel box
PdfToPixels(rect, page_height_points, dpi) ==
    LET s == Frac(dpi, 72)
    IN  [x |-> FracMul(rect.x0, s),
         y |-> FracSub(FracMul(Whole(page_height_points), s),
                       FracMul(rect.y1, s)),
         w |-> FracMul(FracSub(rect.x1, rect.x0), s),
         h |-> FracMul(FracSub(rect.y1, rect.y0), s)]

\* C15: with s = dpi / 72 the rectangle is x0 = x / s, x1 = (x + w) / s,
\* y0 = (H * s - y - h) / s, y1 = (H * s - y) / s; so x0 <= x1 and y0 <= y1,
\* a box of no width or no height gives a rectangle of no width or no height,
\* and the inverse formula gives the pixel box back.
C15_MappingAndRoundTrip ==
    Mapped =>
        LET b == call.bbox
            H == call.page.height
            r == call.rect
        IN  /\ r.x0 = Frac(72 * b.x, call.dpi)
            /\ r.x1 = Frac(72 * (b.x + b.w), call.dpi)
            /\ r.y0 = Frac(H * call.dpi - 72 * (b.y + b.h), call.dpi)
            /\ r.y1 = Frac(H * call.dpi - 72 * b.y, call.dpi)
            /\ FracLeq(r.x0, r.x1)
            /\ FracLeq(r.y0, r.y1)
            /\ (b.w = 0) => (r.x0 = r.x1)
            /\ (b.h = 0) => (r.y0 = r.y1)
            /\ PdfToPixels(r, H, call.dpi) =
                   [x |-> Whole(b.x), y |-> Whole(b.y),
                    w |-> Whole(b.w), h |-> Whole(b.h)]

\* A box of no height, away from the page's edges, has been mapped at 200 DPI
\* to a rectangle of no height whose coordinates are not whole numbers
C15_Witness ==
    /\ Mapped
    /\ call.dpi = 200
    /\ call.bbox = [x |-> 333, y |-> 417, w |-> 250, h |-> 0]
    /\ call.rect.y0 = call.rect.y1
    /\ call.rect.x0.den # 1
    /\ call.rect.x0 # call.rect.x1


(***************************************************************************)
(* Properties of the text-layer extractor (SpecTextLayer)                  *)
(***************************************************************************)
Extracted == call.state = "done"

\* The multiple of 5 points nearest to y (in tenths of a point)
Bucket(y) == CHOOSE m \in {50 * k : k \in 0..20} :
                /\ Abs(y - m) <= 25
                /\ \A n \in {50 * k : k \in 0..20} :
                      Abs(y - n) <= 25 => (m \div 50) % 2 = 0 \/ n = m

\* The blocks come in bucket order and, within a bucket, in x order
InBucketOrder(text_blocks) ==
    \A i, j \in 1..Len(text_blocks) :
        i < j => \/ Bucket(text_blocks[i].y) < Bucket(text_blocks[j].y)
                 \/ /\ Bucket(text_blocks[i].y) = Bucket(text_blocks[j].y)
                    /\ text_blocks[i].x <= text_blocks[j].x

\* The fragments of the example, whatever else they are
IsExample(blocks) ==
    /\ Len(blocks) = 3
    /\ \A i \in 1..3 : blocks[i].block_type = 0
    /\ <<blocks[1].y0, blocks[2].y0, blocks[3].y0>> = <<100, 102, 500>>
    /\ <<blocks[1].x0, blocks[2].x0, blocks[3].x0>> = <<80, 10, 5>>

\* C16: the extractor orders the text fragments by their y position
\* quantized to a 5-unit bucket and, within a bucket, by x; it joins the
\* non-empty fragment texts with a single newline; fragments at y 10, 10.2,
\* 50 with x 80, 10, 5 come out as x 10, x 80, x 5; extract_text_in_bbox and
\* extract_text_blocks_in_bbox give the same order.
C16_FragmentsInBucketOrder ==
    Extracted =>
        LET ordered == call.text_blocks
        IN  /\ InBucketOrder(ordered)
            /\ {ordered[i].block_no : i \in 1..Len(ordered)}
                   = {i \in 1..Len(call.blocks) : call.blocks[i].block_type = 0}
            /\ call.text = Join(NonEmptyTexts(ordered), <<NL>>)
            /\ IsExample(call.blocks) =>
                   [i \in 1..3 |-> ordered[i].x] = <<10, 80, 5>>

\* The example's three fragments have been extracted as "b\na\nc"
C16_Witness ==
    /\ Extracted
    /\ IsExample(call.blocks)
    /\ call.text = <<"b", NL, "a", NL, "c">>
    /\ [i \in 1..3 |-> call.text_blocks[i].block_no] = <<2, 1, 3>>


(***************************************************************************)
(* Properties of the document operations (SpecDoc)                         *)
(***************************************************************************)
\* C18: every region's article_id is a key of the article map.
C18_RegionsReferenceArticles ==
    \A i \in 1..Len(AllRegions(pages)) :
        AllRegions(pages)[i].region.article_id \in ArticleIds(articles)


\* The delete route has removed an article together with its regions and a
\* region of the other article, which add_region created, is still there
C18_Witness ==
    /\ response.op = "delete_article"
    /\ response.status = 200
    /\ ArticleIds(articles) = {2}
    /\ next_region = 2
    /\ RegionCount = 1
    /\ updated_at = 5
    /\ C18_RegionsReferenceArticles


\* C19: every operation that changes the document's regions or articles
\* refreshes updated_at.
C19_MutationsRefreshUpdatedAt ==
    [][(pages' # pages \/ articles' # articles) => updated_at' > updated_at]_vars


\* The regions of the document other than the one with this id, page by page
OtherRegions(pgs, region_id) ==
    [p \in DOMAIN pgs |-> SelectSeq(pgs[p], LAMBDA r : r.region_id # region_id)]

\* The region with this id, wherever it is
TheRegion(pgs, region_id) ==
    LET all == AllRegions(pgs)
    IN  all[CHOOSE i \in 1..Len(all) : all[i].region.region_id = region_id]

DocumentUnchanged == UNCHANGED <<pages, articles, settings, updated_at>>

\* C20: delete_region and reorder_region with an id that matches no region
\* return False and leave pages, regions, articles and updated_at as they
\* were; with a matching id they return True and change that region only:
\* it is gone, or it has the new order, and every other region and every
\* article is as before.
C20_UnmatchedIdChangesNothing ==
    [][/\ response'.op = "delete_region" =>
            \A id \in RegionIdsTried :
                DeleteRegion(id) =>
                    IF ~HasRegion(pages, id)
                    THEN ~response'.result /\ DocumentUnchanged
                    ELSE /\ response'.result
                         /\ ~HasRegion(pages', id)
                         /\ pages' = OtherRegions(pages, id)
                         /\ UNCHANGED <<articles, settings>>
       /\ response'.op = "reorder_region" =>
            \A id \in RegionIdsTried, o \in NewOrderSamples :
                ReorderRegion(id, o) =>
                    IF ~HasRegion(pages, id)
                    THEN ~response'.result /\ DocumentUnchanged
                    ELSE /\ response'.result
                         /\ TheRegion(pages', id)
                                = [TheRegion(pages, id) EXCEPT !.region.order = o]
                         /\ OtherRegions(pages', id) = OtherRegions(pages, id)
                         /\ UNCHANGED <<articles, settings>>
      ]_vars

\* delete_region has returned False for a document that has regions
C20_Witness ==
    /\ response = [op |-> "delete_region", result |-> FALSE]
    /\ RegionCount >= 1
    /\ updated_at >= 2


(***************************************************************************)
(* Properties of the application session (SpecSession)                     *)
(***************************************************************************)
\* C17: the DPI the extractor uses to map and crop a region
\* (annotation_doc.settings.dpi) is the DPI at which the page was rendered
\* when the region was drawn.
C17_ExtractionDpiIsDrawingDpi ==
    \A i \in 1..Len(AllRegions(pages)) :
        settings.dpi = rendered[AllRegions(pages)[i].region.region_id]


\* C21: delete_region never changes the article map; an article whose last
\* region has been removed is still in the document, and build_article_text
\* reports it with an entry of empty text and no records.
C21_ArticleOutlivesItsRegions ==
    /\ [][response'.op = "delete_region" => articles' = articles]_vars
    /\ [](BuildReturned =>
            \A i \in 1..Len(articles) :
                /\ Cardinality(EntriesFor(articles[i].article_id)) = 1
                /\ RegionsOf(articles[i].article_id) = {} =>
                      \A a \in EntriesFor(articles[i].article_id) :
                          /\ response.results[a].text = <<>>
                          /\ response.results[a].regions_metadata = <<>>)

\* The only region of the document's article has been deleted and the
\* article has been reported with an empty entry
C21_Witness ==
    /\ BuildReturned
    /\ next_region = 1
    /\ RegionCount = 0
    /\ Len(articles) = 1
    /\ response.results = <<ExtractedText(articles[1].article_id, <<>>, <<>>)>>


\* The texts the calls for an article returned, in the order of the calls,
\* with a blank line between them
JoinedRegionTexts(article_id) ==
    Join([k \in 1..Len(CallsFor(article_id)) |->
            CallsFor(article_id)[k].result.text], <<NL, NL>>)

\* The records the calls for an article returned, in the order of the calls
RegionRecords(article_id) ==
    [k \in 1..Len(CallsFor(article_id)) |->
        CallsFor(article_id)[k].result.metadata]

\* C22: for an article with regions, ExtractedText.text is the region texts
\* in assembly order joined with "\n\n" when apply_cleanup is false, and
\* cleanup_text of that whole concatenation when apply_cleanup is true; the
\* records are the ones the calls returned, whether or not the text is
\* cleaned.
C22_CleanupOnceOnWholeText ==
    BuildReturned =>
        \A a \in 1..Len(response.results) :
            LET entry == response.results[a]
            IN  CallsFor(entry.article_id) # <<>> =>
                  /\ entry.text =
                        IF response.apply_cleanup
                        THEN cleanup_text(JoinedRegionTexts(entry.article_id))
                        ELSE JoinedRegionTexts(entry.article_id)
                  /\ entry.regions_metadata = RegionRecords(entry.article_id)

\* A cleaned article of two regions whose text differs from the join of the
\* cleaned region texts, and whose records still give the lengths of the
\* texts as extracted
C22_Witness ==
    /\ BuildReturned
    /\ response.apply_cleanup
    /\ \E a \in 1..Len(response.results) :
          LET entry == response.results[a]
              calls == CallsFor(entry.article_id)
          IN  /\ Len(calls) = 2
              /\ entry.text # <<>>
              /\ entry.text # JoinedRegionTexts(entry.article_id)
              /\ entry.text #
                    Join([k \in 1..2 |-> cleanup_text(calls[k].result.text)],
                         <<NL, NL>>)
              /\ \A k \in 1..2 :
                    entry.regions_metadata[k].text_length
                        = Len(calls[k].result.text)


(***************************************************************************)
(* Further properties of one extract_region_text call (SpecExtract)        *)
(***************************************************************************)
\* The text layer answered with a text that should_fallback_to_ocr rejects
LowQualityTextLayer ==
    TextLayerAnswered /\ should_fallback_to_ocr(call.env.text_layer.text)

\* C23: in every record extract_region_text returns, ocr_confidence is the
\* placeholder 85.0 when the text came from OCR after a successful but
\* low-quality text-layer extraction, and 0.0 on every other path.
C23_ConfidencePlaceholder ==
    CallReturned =>
        call.result.metadata.ocr_confidence
            = IF LowQualityTextLayer THEN 85 ELSE 0


\* C27: during one call of extract_region_text the text-layer extraction is
\* attempted at most once and the OCR path (_ocr_region) is invoked at most
\* once, on every path including those that end in an exception.
C27_EachPathAtMostOnce ==
    CallDone => Len(call.result.ocr_results) <= 1


\* C28: every record with method "pdf_text" has text_length of at least 40,
\* ocr_confidence 0.0 and a quality_score of at least 0.252: a text that
\* should_fallback_to_ocr accepts is in none of the x0.3 length, x0.3
\* alphanumeric and x0.4 isolated-letter bands of calculate_quality_score.
C28_AcceptedTextScoresAtLeast252 ==
    (CallReturned /\ call.result.metadata.method = "pdf_text") =>
        /\ call.result.metadata.text_length >= 40
        /\ call.result.metadata.ocr_confidence = 0
        /\ call.result.metadata.quality_score >= 252
        /\ LengthPenalty(call.result.text) >= 6
        /\ RatioPenalty(call.result.text) >= 6
        /\ IsolatedPenalty(call.result.text) >= 7

\* The lowest score is met: an accepted text of 80 characters in the x0.6
\* length band, the x0.6 alphanumeric band and the x0.7 isolated-letter band
C28_Witness ==
    /\ CallReturned
    /\ call.result.metadata.method = "pdf_text"
    /\ call.result.text = BorderlineText
    /\ call.result.metadata.text_length = 80
    /\ call.result.metadata.quality_score = 252


(***************************************************************************)
(* The shape of a cleaned text (SpecCleanup)                               *)
(***************************************************************************)
\* C24: for every input, the output of cleanup_text contains no run of three
\* or more consecutive newlines, no line with trailing whitespace, and no
\* leading or trailing whitespace.
C24_CleanedTextIsNormalized ==
    cleaned =>
        /\ ~Contains(text, <<NL, NL, NL>>)
        /\ \A i \in 1..Len(SplitOn(text, NL)) :
              LET line == SplitOn(text, NL)[i]
              IN  line # <<>> => ~IsSpace(line[Len(line)])
        /\ text # <<>> => (~IsSpace(text[1]) /\ ~IsSpace(text[Len(text)]))

\* A cleaned text of two paragraphs: the lines around the blank line end in
\* a character that is not whitespace
C24_Witness ==
    /\ cleaned
    /\ Contains(text, <<NL, NL>>)
    /\ Len(SplitOn(text, NL)) = 3
    /\ Len(text) >= 5


(***************************************************************************)
(* auto_order_article (SpecDoc)                                            *)
(***************************************************************************)
\* A region without its rank
Unranked(r) ==
    [page_index |-> r.page_index, region_id |-> r.region.region_id,
     article_id |-> r.region.article_id, bbox |-> r.region.bbox]

C26_SwitchSavesAndClears ==
    /\ [][(session.current_pdf # None
           /\ session'.current_pdf # session.current_pdf) =>
            /\ disk'[session.current_pdf] =
                  [exists |-> TRUE,
                   content |-> to_dict(pages, articles, settings, updated_at,
                                       rendered)]
            /\ extracted_texts' = <<>>
         ]_vars
    /\ [](\A k \in 1..Len(extracted_texts) :
            extracted_texts[k].pdf = session.current_pdf)


(***************************************************************************)
(* The editor after "Build Article Text" (SpecEditor)                      *)
(***************************************************************************)
\* C29: after build_article_text has filled the session's extracted texts,
\* rendering the editor for the articles that have an entry, an article
\* with zero regions and an empty record list included, computes the
\* summaries (length, average quality) without raising.
C29_EditorRendersEveryEntry ==
    (response.op = "extract_all_articles" /\ response.build.raised = "none")
        => response.editor = "none"


(***************************************************************************)
(* Two clients save the annotations of one PDF (SpecStorage)               *)
(***************************************************************************)
\* The client whose save finished last
LastSaver == CHOOSE c \in ClientIds :
                \A d \in ClientIds : clients[d].finished <= clients[c].finished

\* C25: persistence is last-writer-wins: when both clients have loaded the
\* document, edited their copies and saved, in any interleaving, the file
\* holds exactly the version whose save finished last and nothing of the
\* other client's version; loading a path with nothing saved gives an empty
\* default document.
C25_LastWriterWins ==
    /\ []((\A c \in ClientIds : clients[c].phase = "saved") =>
            disk[StoragePdf] =
                [exists |-> TRUE, content |-> clients[LastSaver].saved])
    /\ [][\A c \in ClientIds :
            (clients[c].phase = "new" /\ clients'[c].phase = "editing"
             /\ ~disk[StoragePdf].exists) => clients'[c].doc = NewDoc]_vars

====
